---------------------------- MODULE Spec2Model ----------------------------
(***************************************************************************)
(* A model of the video engine: the VideoEngine registry (sessions map,    *)
(* active item, global volume/mute, external script loader), the VideoItem *)
(* session (lifecycle state machine, event bus, manager composition) and   *)
(* the player delegate seen through VideoPlayerManager.                    *)
(*                                                                         *)
(* A session is a record; its methods are operators from record to record. *)
(* The event bus is the ordered list of registered handlers, and emit      *)
(* walks that list as Set.forEach does (in insertion order, over the live  *)
(* collection).  Every action of the state machine is one run-to-completion*)
(* step of the JavaScript event loop: a host call, a delegate signal or    *)
(* the continuation of an awaited promise.                                 *)
(***************************************************************************)
EXTENDS Integers, Sequences, FiniteSets, TLC

(***************************************************************************)
(* Bounds of the model.                                                    *)
(***************************************************************************)
\* VideoItem instances ever constructed (object identities)
MaxInst == 2
\* init() calls per instance that pass the `initialized` guard
MaxInits == 2
\* play() promises of one instance awaiting the delegate at the same time
MaxPlays == 1
\* loadScript invocations over a run
MaxLoads == 2
\* ensureExternalScript calls made directly by the host over a run
MaxCallers == 3

\* Volumes are counted in halves: VolOne stands for 1.0
VolOne == 2

\* setTimeout callbacks of one EndScreenManager pending at the same time
MaxTimers == 2
\* the clock, in seconds: Date.now() when the run begins and where it stops
ClockStart == 5
MaxClock == 17
\* VideoDataManager's throttle of TIME_UPDATE, in seconds
ThrottleInterval == 5

Ids == {"a", "b"}
Insts == 1..MaxInst
NoItem == 0
ScriptNames == {"ima", "gemius"}
\* the numbers a caller may pass as a volume: -0.5, 0, 0.5, 1, 1.5
VolInputs == {-1, 0, 1, 2, 3}

States == {"idle", "loading", "ready", "playing", "paused", "buffering",
           "ended", "error"}
Signals == {"play", "pause", "ended", "error", "waiting", "canplay", "playing"}
PlayOutcomes == {"ok", "NotAllowedError", "OtherError"}

VARIABLES
  items,           \* VideoEngine.items: id -> instance (NoItem: absent)
  activeItem,      \* VideoEngine.activeItem (NoItem: null)
  globalVolume,    \* VideoEngine.globalVolume
  globalMuted,     \* VideoEngine.globalMuted
  engineHandlers,  \* the engine bus: handlers in registration order
  engineLog,       \* engine events published by the last step
  sess,            \* instance -> VideoItem record (or NoSession)
  creates,         \* instance -> state of the createVideoItem call that made it
  loadedScripts,   \* VideoEngine.loadedScripts
  scriptPromises,  \* VideoEngine.scriptPromises: name -> load (0: none)
  loads,           \* loadScript promises, in creation order
  callers,         \* host ensureExternalScript calls, in call order
  lastOp           \* the operation the last step ran, and its result

vars == <<items, activeItem, globalVolume, globalMuted, engineHandlers,
          engineLog, sess, creates, loadedScripts, scriptPromises, loads,
          callers, lastOp>>

engineVars == <<items, activeItem, globalVolume, globalMuted, engineHandlers>>
scriptVars == <<loadedScripts, scriptPromises, loads, callers>>

NoSession == [id |-> "none"]

Clamp(v) == IF v < 0 THEN 0 ELSE IF v > VolOne THEN VolOne ELSE v


(***************************************************************************)
(* The player delegate: VideoPlayerManager and its adapter.                *)
(* A VideoItem record holds every VideoPlayerManager its init() calls made *)
(* (pms), the one the playerManager field points at (0: null), and for     *)
(* each its adapter: whether it is still mounted, the state of its source  *)
(* load, and the paused and muted flags the backend reports.               *)
(***************************************************************************)
\* new VideoPlayerManager + init(): createAdapter, mount, setupEventMapping,
\* loadSource started.  A fresh media element is paused and not muted.
NewPlayerManager == [adapter |-> TRUE, load |-> "pending", paused |-> TRUE,
                     muted |-> FALSE]

\* VideoItem.getPlayerManager() as a record (only used when non-null)
BoundPM(S) == S.pms[S.playerManager]

\* a faulty PMIsPaused: the default of a missing adapter for every one
PMIsPausedDefault(S) == S.playerManager # 0

\* this.playerManager?.isPaused(): undefined (falsy) without a manager,
\* adapter?.isPaused() ?? true with one
PMIsPaused(S) ==
  IF S.playerManager = 0 THEN FALSE
  ELSE IF BoundPM(S).adapter THEN BoundPM(S).paused ELSE TRUE

\* playerManager.isMuted(): adapter?.isMuted() || false
PMIsMuted(S) == BoundPM(S).adapter /\ BoundPM(S).muted

DCall(S, m, arg) == [S EXCEPT !.dcalls = Append(@, <<m, arg>>)]

\* playerManager.setMuted(b): adapter?.setMuted(b)
PMSetMuted(S, b) ==
  IF BoundPM(S).adapter
  THEN DCall([S EXCEPT !.pms[S.playerManager].muted = b], "setMuted", b)
  ELSE S

\* playerManager.setVolume(v): adapter?.setVolume(v)
PMSetVolume(S, v) ==
  IF BoundPM(S).adapter THEN DCall(S, "setVolume", v) ELSE S

\* playerManager.pause(): adapter?.pause(); the element's paused flag is set
PMPause(S) ==
  IF BoundPM(S).adapter
  THEN DCall([S EXCEPT !.pms[S.playerManager].paused = TRUE], "pause", 0)
  ELSE S

\* playerManager.seekTo(t): adapter?.seekTo(t)
PMSeekTo(S, t) ==
  IF BoundPM(S).adapter THEN DCall(S, "seekTo", t) ELSE S

\* playerManager.play() up to its await: without an adapter it throws (the
\* promise is rejected), with one the backend's play() is invoked and answers
\* as the oracle of this step says; an accepted play clears the paused flag.
PMPlay(S, phase, first) ==
  IF ~BoundPM(S).adapter
  THEN [S EXCEPT !.plays = Append(@, [pm |-> S.playerManager, phase |-> phase,
                                      outcome |-> "OtherError", first |-> first])]
  ELSE LET S1 == DCall(S, "play", 0)
           S2 == IF S.oracle = "ok"
                 THEN [S1 EXCEPT !.pms[S.playerManager].paused = FALSE]
                 ELSE S1
       IN [S2 EXCEPT !.plays = Append(@, [pm |-> S.playerManager,
                                          phase |-> phase,
                                          outcome |-> S.oracle,
                                          first |-> first])]

\* VideoPlayerManager.dispose(): adapter.destroy(); adapter = null. Without
\* an adapter the manager reports paused (?? true) and not muted (|| false).
PMDispose(S) ==
  [S EXCEPT !.pms[S.playerManager] =
     [@ EXCEPT !.adapter = FALSE, !.paused = TRUE, !.muted = FALSE]]

(***************************************************************************)
(* The event bus of a VideoItem (EventEmitter) and the handlers on it.     *)
(***************************************************************************)
\* functions the host subscribes: hostA does nothing, hostThrow throws,
\* hostSub subscribes hostLate to VOLUME_CHANGED, hostLate does nothing
HostHandlers == {"hostA", "hostThrow", "hostSub", "hostLate"}

Registered(S, ev, h) ==
  \E i \in 1..Len(S.handlers) : S.handlers[i] = [ev |-> ev, h |-> h]

\* EventEmitter.on: the handler joins the end of the registration order of
\* its event; the handlers of an event are a Set, so a function that is
\* already in it is not added again (the listeners the VideoItem and its
\* managers register are new closures each time, the host's are not)
On(S, ev, h) ==
  IF h \in HostHandlers /\ Registered(S, ev, h) THEN S
  ELSE [S EXCEPT !.handlers = Append(@, [ev |-> ev, h |-> h])]

\* EventEmitter.off: the function leaves the handlers of the event
Off(S, ev, h) ==
  [S EXCEPT !.handlers = SelectSeq(@, LAMBDA r : r # [ev |-> ev, h |-> h])]

\* EventEmitter.removeAllListeners()
RemoveAllListeners(S) == [S EXCEPT !.handlers = <<>>]

\* a faulty SetupStateEventListeners: no listener for PAUSE
SetupStateEventListenersNoPause(S) ==
  On(On(On(On(S, "PLAY", "statePlay"), "ENDED", "stateEnded"),
        "BUFFER_START", "stateBufferStart"), "BUFFER_END", "stateBufferEnd")

\* VideoItem.setupStateEventListeners
SetupStateEventListeners(S) ==
  On(On(On(On(On(S, "PLAY", "statePlay"), "PAUSE", "statePause"),
              "ENDED", "stateEnded"), "BUFFER_START", "stateBufferStart"),
        "BUFFER_END", "stateBufferEnd")

\* BaseDataManager.setupEventListeners, then VideoDataManager's override
DataSetupEventListeners(S) ==
  On(On(On(On(On(On(On(On(On(On(S,
     "PLAY", "dataPlay"), "PAUSE", "dataPause"), "ENDED", "dataEnded"),
     "ERROR", "dataError"), "TIME_UPDATE", "dataTimeUpdate"),
     "BUFFER_START", "dataBufferStart"), "BUFFER_END", "dataBufferEnd"),
     "STATE_CHANGED", "dataStateChanged"),
     "AD_BREAK_STARTED", "dataAdBreakStarted"),
     "AD_BREAK_ENDED", "dataAdBreakEnded")

\* AdvertisementManager.setupEventListeners
AdsSetupEventListeners(S) ==
  On(On(On(S, "PLAY", "adsPlay"), "PAUSE", "adsPause"), "ENDED", "adsEnded")

\* the functions subscribed to ev on the VideoItem
Subscribed(S, ev) ==
  {S.handlers[i].h : i \in {j \in 1..Len(S.handlers) : S.handlers[j].ev = ev}}

\* what a manager constructor, or the autoplay request, finds when it runs:
\* the state getState() returns, the units the VideoItem holds and the
\* functions subscribed to PLAY
Observe(S, what) ==
  [S EXCEPT !.seen = Append(@, [what |-> what, state |-> S.state,
                                units |-> S.units,
                                plays |-> Subscribed(S, "PLAY")])]

\* the VideoItem stores a manager it has constructed
Hold(S, u) == [Observe(S, u) EXCEPT !.units = @ \cup {u}]

\* AdvertisementManager constructor: listeners, then initializeIMA() runs to
\* its first await: without an adTagUrl it returns, with one it asks the
\* engine for the "ima" script (the enclosing action makes that call).
NewAdvertisementManager(S) ==
  LET S1 == AdsSetupEventListeners(S)
  IN [Hold(S1, "ads") EXCEPT
                !.adState = IF S.config.adTagUrl THEN "loading" ELSE "skipped"]

\* VideoDataManager constructor
NewVideoDataManager(S) ==
  Hold(DataSetupEventListeners(S), "data")

\* BaseDataManager.setupEventListeners, as GemiusDataManager inherits it
GemiusSetupEventListeners(S) ==
  On(On(On(On(On(On(On(On(S,
     "PLAY", "gemiusPlay"), "PAUSE", "gemiusPause"), "ENDED", "gemiusEnded"),
     "ERROR", "gemiusError"), "TIME_UPDATE", "gemiusTimeUpdate"),
     "BUFFER_START", "gemiusBufferStart"), "BUFFER_END", "gemiusBufferEnd"),
     "STATE_CHANGED", "gemiusStateChanged")

\* GemiusDataManager constructor
NewGemiusDataManager(S) ==
  Hold(GemiusSetupEventListeners(S), "gemius")

\* EndScreenManager constructor and its setupEventListeners
NewEndScreenManager(S) ==
  Hold(On(On(S, "ENDED", "endscreenEnded"), "PLAY", "endscreenPlay"),
       "endscreen")

\* RecommendationsManager constructor and its setupEventListeners
NewRecommendationsManager(S) ==
  Hold(On(On(S, "ENDED", "recommendationsEnded"),
          "PLAY", "recommendationsPlay"), "recommendations")

\* ChromecastManager, AirplayManager and FloatingManager constructors: they
\* subscribe to nothing on the VideoItem
NewChromecastManager(S) == Hold(S, "chromecast")
NewAirplayManager(S) == Hold(S, "airplay")
NewFloatingManager(S) == Hold(S, "floating")

\* the configuration field each optional unit is composed under
UnitFlag == [data |-> "dataEndpoint", gemius |-> "gemiusId",
             ads |-> "adsEnabled", endscreen |-> "endscreenEnabled",
             recommendations |-> "recommendationsEnabled",
             chromecast |-> "chromecastEnabled", airplay |-> "airplayEnabled",
             floating |-> "floatingEnabled"]

\* the constructor of unit u
NewUnit(S, u) ==
  CASE u = "data" -> NewVideoDataManager(S)
    [] u = "gemius" -> NewGemiusDataManager(S)
    [] u = "ads" -> NewAdvertisementManager(S)
    [] u = "endscreen" -> NewEndScreenManager(S)
    [] u = "recommendations" -> NewRecommendationsManager(S)
    [] u = "chromecast" -> NewChromecastManager(S)
    [] u = "airplay" -> NewAirplayManager(S)
    [] u = "floating" -> NewFloatingManager(S)

\* one `if (this.config.<field>) this.<unit> = new ...` of initializeManagers
ComposeUnit(S, u) == IF S.config[UnitFlag[u]] THEN NewUnit(S, u) ELSE S

\* a faulty ComposeUnits: an AirplayManager is made whatever the flag says
ComposeUnitsAirplayStub(S) ==
  ComposeUnit(NewAirplayManager(ComposeUnit(ComposeUnit(ComposeUnit(
    ComposeUnit(ComposeUnit(ComposeUnit(S, "data"), "gemius"), "ads"),
    "endscreen"), "recommendations"), "chromecast")), "floating")

\* the constructors initializeManagers calls, each under its configuration
\* field, in the order of the code
ComposeUnits(S) ==
  ComposeUnit(ComposeUnit(ComposeUnit(ComposeUnit(ComposeUnit(ComposeUnit(
    ComposeUnit(ComposeUnit(S, "data"), "gemius"), "ads"), "endscreen"),
    "recommendations"), "chromecast"), "airplay"), "floating")

\* a faulty InitializeManagers: the flag is never set
InitializeManagersNoFlag(S) ==
  IF S.managersInitialized THEN S
  ELSE [ComposeUnits(S) EXCEPT !.composed = @ + 1]

\* VideoItem.initializeManagers; composed counts the runs that pass the
\* guard
InitializeManagers(S) ==
  IF S.managersInitialized THEN S
  ELSE [ComposeUnits(S) EXCEPT !.managersInitialized = TRUE,
                               !.composed = @ + 1]

\* a faulty Play: the lifecycle state is not looked at
PlayNoGuard(S) ==
  IF S.playerManager = 0 THEN [S EXCEPT !.ret = "rejected"]
  ELSE [PMPlay(S, "first", "none") EXCEPT !.ret = "pending"]

\* VideoItem.play() up to its first await
Play(S) ==
  IF S.playerManager = 0 THEN [S EXCEPT !.ret = "rejected"]
  ELSE IF S.state \in {"error", "idle"} THEN [S EXCEPT !.ret = "rejected"]
  ELSE [PMPlay(S, "first", "none") EXCEPT !.ret = "pending"]

\* VideoItem.handleAutoplay: play() with its failure swallowed
HandleAutoplay(S) ==
  IF ~S.config.autoplay THEN S
  ELSE [Play(Observe(S, "autoplay")) EXCEPT !.ret = S.ret]

RECURSIVE Emit(_, _, _)
RECURSIVE RunHandlers(_, _, _, _, _)
RECURSIVE RunHandlersNoCatch(_, _, _, _, _)
RECURSIVE Handle(_, _, _)
RECURSIVE SetState(_, _)

\* a faulty SetState: the event is published for a state already held too
SetStateAlways(S, newState) ==
  Emit([S EXCEPT !.state = newState], "STATE_CHANGED", newState)

\* a faulty SetState: the event is published before the state is assigned
SetStateEmitFirst(S, newState) ==
  IF S.state = newState THEN S
  ELSE [Emit(S, "STATE_CHANGED", newState) EXCEPT !.state = newState]

\* VideoItem.setState
SetState(S, newState) ==
  IF S.state = newState THEN S
  ELSE Emit([S EXCEPT !.state = newState], "STATE_CHANGED", newState)

\* a faulty HandleStateChanged: any state change composes the managers
HandleStateChangedAnyState(S, payload) ==
  IF ~S.managersInitialized
  THEN HandleAutoplay(InitializeManagers(S))
  ELSE S

\* VideoItem.handleStateChanged
HandleStateChanged(S, payload) ==
  IF payload = "ready" /\ ~S.managersInitialized
  THEN HandleAutoplay(InitializeManagers(S))
  ELSE S

\* one registered handler run on a payload
\* EndScreenManager.showEndScreen (enabled is true as VideoItem configures it)
ShowEndScreen(S) ==
  IF S.endScreenShown THEN S ELSE [S EXCEPT !.endScreenShown = TRUE]

\* EndScreenManager.hideEndScreen
HideEndScreen(S) ==
  IF ~S.endScreenShown THEN S ELSE [S EXCEPT !.endScreenShown = FALSE]

\* EndScreenManager.handleEnded: enabled and autoShow are true as VideoItem
\* configures it and delay is 0: showEndScreen is left to a timer
EndScreenHandleEnded(S) ==
  IF S.endScreenShown THEN S ELSE [S EXCEPT !.endTimers = @ + 1]

\* EndScreenManager.handlePlay
EndScreenHandlePlay(S) ==
  IF S.endScreenShown THEN HideEndScreen(S) ELSE S

\* the configuration VideoItem.initializeManagers gives the
\* RecommendationsManager
RecommendationsConfig == [enabled |-> TRUE, autoShow |-> FALSE,
                          showOnEnd |-> TRUE]

\* RecommendationsManager.showRecommendations
ShowRecommendations(S) ==
  IF ~RecommendationsConfig.enabled \/ S.recommendationsShown THEN S
  ELSE Emit([S EXCEPT !.recommendationsShown = TRUE],
            "RECOMMENDATIONS_SHOWN", "none")

\* RecommendationsManager.hideRecommendations
HideRecommendations(S) ==
  IF ~S.recommendationsShown THEN S
  ELSE [S EXCEPT !.recommendationsShown = FALSE]

\* RecommendationsManager.handleEnded
RecommendationsHandleEnded(S) ==
  IF ~RecommendationsConfig.enabled \/ S.recommendationsShown THEN S
  ELSE IF RecommendationsConfig.showOnEnd /\ RecommendationsConfig.autoShow
       THEN ShowRecommendations(S)
       ELSE S

\* RecommendationsManager.handlePlay
RecommendationsHandlePlay(S) ==
  IF S.recommendationsShown THEN HideRecommendations(S) ELSE S

\* VideoDataManager.sendEvent: the unit exists only with an endpoint, so the
\* event is sent; sentAt remembers when a timeupdate was last sent
SendEvent(S, type) ==
  [S EXCEPT !.sends = Append(@, type),
            !.sentAt = IF type = "timeupdate" THEN S.now ELSE @]

\* a faulty DataHandleTimeUpdate: the time of the forward is not kept
DataHandleTimeUpdateNoStamp(S) ==
  IF S.now - S.lastTimeUpdate < ThrottleInterval THEN S
  ELSE SendEvent(S, "timeupdate")

\* VideoDataManager.handleTimeUpdate
DataHandleTimeUpdate(S) ==
  IF S.now - S.lastTimeUpdate < ThrottleInterval THEN S
  ELSE SendEvent([S EXCEPT !.lastTimeUpdate = S.now], "timeupdate")

Handle(S, h, payload) ==
  CASE h = "statePlay" ->
         IF S.state # "playing" THEN SetState(S, "playing") ELSE S
    [] h = "statePause" ->
         IF S.state # "paused" THEN SetState(S, "paused") ELSE S
    [] h = "stateEnded" ->
         IF S.state # "ended" THEN SetState(S, "ended") ELSE S
    [] h = "stateBufferStart" ->
         IF S.state = "playing" THEN SetState(S, "buffering") ELSE S
    [] h = "stateBufferEnd" ->
         IF S.state = "buffering"
         THEN IF PMIsPaused(S) THEN SetState(S, "paused")
              ELSE SetState(S, "playing")
         ELSE S
    [] h = "handleStateChanged" -> HandleStateChanged(S, payload)
    [] h = "hostSub" -> On(S, "VOLUME_CHANGED", "hostLate")
    [] h = "endscreenEnded" -> EndScreenHandleEnded(S)
    [] h = "endscreenPlay" -> EndScreenHandlePlay(S)
    [] h = "recommendationsEnded" -> RecommendationsHandleEnded(S)
    [] h = "recommendationsPlay" -> RecommendationsHandlePlay(S)
    [] h = "dataTimeUpdate" -> DataHandleTimeUpdate(S)
    [] OTHER -> S

\* the handler throws when it is called
Throws(h) == h = "hostThrow"

\* a faulty RunHandlers: an exception of a handler ends the iteration
RunHandlersNoCatch(S, ev, payload, k, n0) ==
  IF k > Len(S.handlers) THEN S
  ELSE IF S.handlers[k].ev = ev
       THEN LET h == S.handlers[k].h
                S1 == [S EXCEPT !.ran = Append(@, [ev |-> ev, k |-> k,
                                                   h |-> h, n0 |-> n0])]
            IN IF Throws(h) THEN S1
               ELSE RunHandlersNoCatch(Handle(S1, h, payload), ev, payload,
                                       k + 1, n0)
       ELSE RunHandlersNoCatch(S, ev, payload, k + 1, n0)

\* EventEmitter.emit: forEach over the live handler collection of the
\* event, in insertion order; a handler added while it runs is visited too.
\* Each call is inside try/catch, so a handler that throws (it has changed
\* nothing) is followed by the next one. ran records every call: the event,
\* the handler and its position, and n0, the number of registrations when
\* this emit began.
RunHandlers(S, ev, payload, k, n0) ==
  IF k > Len(S.handlers) THEN S
  ELSE IF S.handlers[k].ev = ev
       THEN LET h == S.handlers[k].h
                S1 == [S EXCEPT !.ran = Append(@, [ev |-> ev, k |-> k,
                                                   h |-> h, n0 |-> n0])]
            IN IF Throws(h)
               THEN RunHandlers(S1, ev, payload, k + 1, n0)
               ELSE RunHandlers(Handle(S1, h, payload), ev, payload,
                                k + 1, n0)
       ELSE RunHandlers(S, ev, payload, k + 1, n0)

Emit(S, ev, payload) ==
  RunHandlers([S EXCEPT !.log = Append(@, <<ev, payload>>)], ev, payload, 1,
              Len(S.handlers))


(***************************************************************************)
(* The VideoItem (session): construction and public operations.            *)
(* The fields oracle, ret, err, log and dcalls describe the step being     *)
(* taken (the backend's answer to a play request made in it, the result of *)
(* the operation, the events published and the delegate calls made);       *)
(* composed, disposed, stallPause, stallPm and sentAt are history; now is   *)
(* Date.now() as the units of the session read it, endTimers the number of *)
(* setTimeout callbacks of the EndScreenManager that have not run yet.     *)
(***************************************************************************)
\* new VideoItem(initProps, engineContext): the resolved configuration
\* takes volume and muted from the init properties, else from the engine
NewVideoItem(id, props, gVolume, gMuted) ==
  [id |-> id,
   state |-> "idle",
   initialized |-> FALSE,
   managersInitialized |-> FALSE,
   playerManager |-> 0,
   config |-> [volume |-> IF props.volume = {} THEN gVolume
                          ELSE CHOOSE v \in props.volume : TRUE,
               muted |-> IF props.muted = {} THEN gMuted
                         ELSE CHOOSE b \in props.muted : TRUE,
               autoplay |-> props.autoplay,
               adsEnabled |-> props.adsEnabled,
               adTagUrl |-> props.adTagUrl,
               dataEndpoint |-> props.dataEndpoint,
               gemiusId |-> props.gemiusId,
               endscreenEnabled |-> props.endscreenEnabled,
               recommendationsEnabled |-> props.recommendationsEnabled,
               chromecastEnabled |-> props.chromecastEnabled,
               airplayEnabled |-> props.airplayEnabled,
               floatingEnabled |-> props.floatingEnabled],
   pms |-> <<>>,
   plays |-> <<>>,
   handlers |-> <<>>,
   units |-> {},
   adState |-> "none", adLoad |-> 0,
   oracle |-> "ok", ret |-> "none", err |-> "none",
   log |-> <<>>, dcalls |-> <<>>, ran |-> <<>>, seen |-> <<>>,
   torn |-> <<>>, sends |-> <<>>,
   endScreenShown |-> FALSE, endTimers |-> 0,
   recommendationsShown |-> FALSE,
   now |-> ClockStart, lastTimeUpdate |-> 0, sentAt |-> -1,
   composed |-> 0, disposed |-> FALSE, stallPause |-> FALSE, stallPm |-> 0]

\* what every step starts from: nothing published, nothing returned yet
Fresh(S) ==
  IF S = NoSession THEN S
  ELSE [S EXCEPT !.oracle = "ok", !.ret = "none", !.err = "none",
                 !.log = <<>>, !.dcalls = <<>>, !.ran = <<>>,
                 !.seen = <<>>, !.torn = <<>>, !.sends = <<>>]

\* VideoItem.init up to its await of playerManager.init
InitStart(S) ==
  IF S.initialized THEN [S EXCEPT !.ret = "resolved"]
  ELSE LET S1 == [S EXCEPT !.pms = Append(@, NewPlayerManager),
                           !.playerManager = Len(S.pms) + 1]
           S2 == On(SetupStateEventListeners(S1), "STATE_CHANGED",
                    "handleStateChanged")
       IN [SetState(S2, "loading") EXCEPT !.ret = "pending"]

\* VideoPlayerManager.applyInitialSettings of manager k
ApplyInitialSettings(S, k) ==
  IF ~S.pms[k].adapter THEN S
  ELSE [S EXCEPT !.pms[k].muted = S.config.muted,
                 !.dcalls = @ \o << <<"setVolume", S.config.volume>>,
                                    <<"setMuted", S.config.muted>> >>]

\* a faulty InitSettle: on failure ERROR is published before the state
\* changes
InitSettleErrorFirst(S, k, ok) ==
  IF ok
  THEN LET S1 == ApplyInitialSettings([S EXCEPT !.pms[k].load = "ok"], k)
           S2 == SetState(S1, "ready")
       IN [S2 EXCEPT !.initialized = TRUE, !.ret = "resolved"]
  ELSE LET S1 == Emit([S EXCEPT !.pms[k].load = "failed"], "ERROR",
                      "loadError")
           S2 == SetState(S1, "error")
       IN [S2 EXCEPT !.ret = "rejected", !.err = "loadError"]

\* VideoItem.init after the await: the source load of manager k settled
InitSettle(S, k, ok) ==
  IF ok
  THEN LET S1 == ApplyInitialSettings([S EXCEPT !.pms[k].load = "ok"], k)
           S2 == SetState(S1, "ready")
       IN [S2 EXCEPT !.initialized = TRUE, !.ret = "resolved"]
  ELSE LET S1 == SetState([S EXCEPT !.pms[k].load = "failed"], "error")
           S2 == Emit(S1, "ERROR", "loadError")
       IN [S2 EXCEPT !.ret = "rejected", !.err = "loadError"]

RemoveAt(seq, j) == [n \in 1..(Len(seq) - 1) |->
                       IF n < j THEN seq[n] ELSE seq[n + 1]]

\* a faulty PlaySettle: a failed retry rejects with the retry's own error
PlaySettleRetryError(S, j) ==
  LET p == S.plays[j]
      S1 == [S EXCEPT !.plays = RemoveAt(@, j)]
  IN IF p.outcome = "ok" THEN [S1 EXCEPT !.ret = "resolved"]
     ELSE IF p.phase = "retry"
          THEN [S1 EXCEPT !.ret = "rejected", !.err = p.outcome]
     ELSE IF p.outcome = "NotAllowedError" /\ S1.playerManager = 0
          THEN [S1 EXCEPT !.ret = "rejected", !.err = "TypeError"]
     ELSE IF p.outcome = "NotAllowedError" /\ ~PMIsMuted(S1)
          THEN [PMPlay(PMSetMuted(S1, TRUE), "retry", p.outcome)
                  EXCEPT !.ret = "pending"]
     ELSE [S1 EXCEPT !.ret = "rejected", !.err = p.outcome]

\* VideoItem.play after an await: the j-th pending delegate play settled
PlaySettle(S, j) ==
  LET p == S.plays[j]
      S1 == [S EXCEPT !.plays = RemoveAt(@, j)]
  IN IF p.outcome = "ok" THEN [S1 EXCEPT !.ret = "resolved"]
     ELSE IF p.phase = "retry"
          THEN [S1 EXCEPT !.ret = "rejected", !.err = p.first]
     ELSE IF p.outcome = "NotAllowedError" /\ S1.playerManager = 0
          THEN [S1 EXCEPT !.ret = "rejected", !.err = "TypeError"]
     ELSE IF p.outcome = "NotAllowedError" /\ ~PMIsMuted(S1)
          THEN [PMPlay(PMSetMuted(S1, TRUE), "retry", p.outcome)
                  EXCEPT !.ret = "pending"]
     ELSE [S1 EXCEPT !.ret = "rejected", !.err = p.outcome]

\* a faulty Pause: outside of playing the request is dropped
PauseOnlyWhenPlaying(S) ==
  IF S.playerManager = 0 \/ S.state # "playing" THEN S
  ELSE PMPause(SetState(S, "paused"))

\* a faulty Pause: the state is left for the delegate's signal to change
PauseNoState(S) ==
  IF S.playerManager = 0 THEN S ELSE PMPause(S)

\* VideoItem.pause
Pause(S) ==
  IF S.playerManager = 0 THEN S
  ELSE LET S1 == IF S.state = "playing" THEN SetState(S, "paused") ELSE S
       IN PMPause(S1)

\* VideoItem.seekTo
SeekTo(S, t) == IF S.playerManager = 0 THEN S ELSE PMSeekTo(S, t)

\* a faulty SetVolume: the value is stored and passed on as given
SetVolumeUnclamped(S, v) ==
  LET S1 == [S EXCEPT !.config.volume = v]
      S2 == IF S1.playerManager = 0 THEN S1 ELSE PMSetVolume(S1, v)
  IN Emit(S2, "VOLUME_CHANGED", v)

\* VideoItem.setVolume
SetVolume(S, v) ==
  LET S1 == [S EXCEPT !.config.volume = Clamp(v)]
      S2 == IF S1.playerManager = 0 THEN S1 ELSE PMSetVolume(S1, Clamp(v))
  IN Emit(S2, "VOLUME_CHANGED", Clamp(v))

\* VideoItem.setMuted
SetMuted(S, b) ==
  LET S1 == [S EXCEPT !.config.muted = b]
      S2 == IF S1.playerManager = 0 THEN S1 ELSE PMSetMuted(S1, b)
  IN Emit(S2, "MUTE_CHANGED", b)

\* VideoItem.update: this.config = { ...this.config, ...props }
Update(S, props) ==
  [S EXCEPT !.config = [f \in DOMAIN S.config |->
                          IF f \in DOMAIN props THEN props[f]
                          ELSE S.config[f]]]

\* the events each unit's removeEventListeners names, in its order
UnitOffs ==
  [data |-> <<"PLAY", "PAUSE", "ENDED", "ERROR", "TIME_UPDATE",
              "BUFFER_START", "BUFFER_END", "STATE_CHANGED",
              "AD_BREAK_STARTED", "AD_BREAK_ENDED">>,
   gemius |-> <<"PLAY", "PAUSE", "ENDED", "ERROR", "TIME_UPDATE",
                "BUFFER_START", "BUFFER_END", "STATE_CHANGED">>,
   ads |-> <<"PLAY", "PAUSE", "ENDED", "TIME_UPDATE">>,
   endscreen |-> <<"ENDED", "PLAY">>,
   recommendations |-> <<"ENDED", "PLAY">>,
   chromecast |-> <<>>, airplay |-> <<>>, floating |-> <<>>]

\* the function removeEventListeners passes to off: the unit's method
\* itself (this.handlePlay, ...), which is not the function the constructor
\* subscribed (this.handlePlay.bind(this), a new function)
UnitMethod == [data |-> "dataMethod", gemius |-> "gemiusMethod",
               ads |-> "adsMethod", endscreen |-> "endscreenMethod",
               recommendations |-> "recommendationsMethod",
               chromecast |-> "chromecastMethod",
               airplay |-> "airplayMethod", floating |-> "floatingMethod"]

\* the functions each unit's constructor subscribed
UnitHandlers ==
  [data |-> {"dataPlay", "dataPause", "dataEnded", "dataError",
             "dataTimeUpdate", "dataBufferStart", "dataBufferEnd",
             "dataStateChanged", "dataAdBreakStarted", "dataAdBreakEnded"},
   gemius |-> {"gemiusPlay", "gemiusPause", "gemiusEnded", "gemiusError",
               "gemiusTimeUpdate", "gemiusBufferStart", "gemiusBufferEnd",
               "gemiusStateChanged"},
   ads |-> {"adsPlay", "adsPause", "adsEnded"},
   endscreen |-> {"endscreenEnded", "endscreenPlay"},
   recommendations |-> {"recommendationsEnded", "recommendationsPlay"},
   chromecast |-> {}, airplay |-> {}, floating |-> {}]

\* a unit's removeEventListeners from its i-th off on
RECURSIVE RemoveEventListeners(_, _, _)
RemoveEventListeners(S, u, i) ==
  IF i > Len(UnitOffs[u]) THEN S
  ELSE RemoveEventListeners(Off(S, UnitOffs[u][i], UnitMethod[u]), u, i + 1)

\* a unit's dispose(): removeEventListeners; torn records, as dispose
\* returns, which of the unit's subscriptions are still on the VideoItem
UnitDispose(S, u) ==
  LET S1 == RemoveEventListeners(S, u, 1)
      left == {S1.handlers[i].h : i \in 1..Len(S1.handlers)}
                \cap UnitHandlers[u]
  IN [S1 EXCEPT !.torn = Append(@, [unit |-> u, left |-> left])]

\* VideoItem.dispose for one manager field: dispose it and null the field
DisposeUnit(S, u) ==
  IF u \in S.units THEN [UnitDispose(S, u) EXCEPT !.units = @ \ {u}] ELSE S

\* VideoItem.dispose: the eight manager fields, in the order of the code
DisposeUnits(S) ==
  DisposeUnit(DisposeUnit(DisposeUnit(DisposeUnit(DisposeUnit(DisposeUnit(
    DisposeUnit(DisposeUnit(S, "data"), "gemius"), "ads"), "endscreen"),
    "recommendations"), "chromecast"), "airplay"), "floating")

\* VideoItem.dispose
Dispose(S) ==
  LET S1 == IF S.playerManager # 0
            THEN [PMDispose(S) EXCEPT !.playerManager = 0]
            ELSE S
      S2 == DisposeUnits(S1)
      S3 == SetState(RemoveAllListeners(S2), "idle")
  IN [S3 EXCEPT !.initialized = FALSE, !.disposed = TRUE]

\* VideoItem.dispose when adapter.destroy() of the bound manager throws
\* (video.js player.dispose() is called unguarded): the exception leaves
\* playerManager.dispose() before the adapter is nulled and leaves
\* VideoItem.dispose at its first statement
DisposeInterrupted(S) ==
  [S EXCEPT !.ret = "threw", !.err = "teardownError"]

\* a faulty OnSignal: the raw `play` event is mapped to PLAY
OnSignalRawPlayMapped(S, sig) ==
  CASE sig = "play" -> Emit(S, "PLAY", "none")
    [] sig = "pause" -> Emit(S, "PAUSE", "none")
    [] sig = "ended" -> Emit(S, "ENDED", "none")
    [] sig = "error" -> Emit(S, "ERROR", "playbackError")
    [] sig = "timeupdate" -> Emit(S, "TIME_UPDATE", "none")
    [] sig = "waiting" -> Emit(S, "BUFFER_START", "none")
    [] sig = "canplay" -> Emit(S, "BUFFER_END", "none")
    [] sig = "playing" -> Emit(Emit(S, "PLAY", "none"), "BUFFER_END", "none")

\* VideoPlayerManager.setupEventMapping: what a signal of the adapter
\* publishes on the VideoItem
OnSignal(S, sig) ==
  CASE sig = "play" -> S
    [] sig = "pause" -> Emit(S, "PAUSE", "none")
    [] sig = "ended" -> Emit(S, "ENDED", "none")
    [] sig = "error" -> Emit(S, "ERROR", "playbackError")
    [] sig = "timeupdate" -> Emit(S, "TIME_UPDATE", "none")
    [] sig = "waiting" -> Emit(S, "BUFFER_START", "none")
    [] sig = "canplay" -> Emit(S, "BUFFER_END", "none")
    [] sig = "playing" -> Emit(Emit(S, "PLAY", "none"), "BUFFER_END", "none")


(***************************************************************************)
(* The VideoEngine (registry).                                             *)
(***************************************************************************)
Constructed == {n \in Insts : sess[n] # NoSession}
FreeInsts == Insts \ Constructed

\* lastOp: the operation of the last step; prev is the lifecycle state a
\* delegate signal found
NoOp == [op |-> "none", inst |-> 0, id |-> "none", k |-> 0, sig |-> "none",
         val |-> 0, ret |-> "none", prev |-> "none"]

\* every session as the step finds it
FreshAll == [n \in Insts |-> Fresh(sess[n])]

\* the step has passed a play() to the delegate and the delegate accepted it
PlayAccepted(S) ==
  /\ S.oracle = "ok"
  /\ \E i \in 1..Len(S.dcalls) : S.dcalls[i][1] = "play"

\* the step's result for session n, the others as they were; the history of
\* a stall is kept only while the session is buffering, and a pause request
\* is remembered until the delegate accepts a play()
Put(n, S) ==
  [FreshAll EXCEPT ![n] =
     [S EXCEPT !.oracle = "ok",
               !.stallPause = IF S.state = "buffering" /\ ~PlayAccepted(S)
                              THEN @ ELSE FALSE,
               !.stallPm = IF S.state = "buffering" THEN @ ELSE 0]]

\* a faulty EnsureExternalScript: an in-flight load is not shared
EnsureExternalScriptNoShare(SC, name) ==
  IF name \in SC.loaded THEN [SC EXCEPT !.via = 0]
  ELSE [SC EXCEPT !.loads = Append(@, [name |-> name, status |-> "pending"]),
                  !.promises[name] = Len(SC.loads) + 1,
                  !.via = Len(SC.loads) + 1]

\* VideoEngine.ensureExternalScript up to its await, on the loader state
\* SC = [loaded, promises, loads]; via is what the caller awaits: 0 for a
\* name already loaded, else the load it shares or has just started
EnsureExternalScript(SC, name) ==
  IF name \in SC.loaded THEN [SC EXCEPT !.via = 0]
  ELSE IF SC.promises[name] # 0 THEN [SC EXCEPT !.via = SC.promises[name]]
  ELSE [SC EXCEPT !.loads = Append(@, [name |-> name, status |-> "pending"]),
                  !.promises[name] = Len(SC.loads) + 1,
                  !.via = Len(SC.loads) + 1]

ScriptState == [loaded |-> loadedScripts, promises |-> scriptPromises,
                loads |-> loads, via |-> 0]

\* the loader state after the constructor of an AdvertisementManager of
\* session S (as the step leaves it) has asked for "ima", if it was built
\* in this step with an adTagUrl
NewAdsRequest(Sold, S) == S.adState = "loading" /\ Sold.adState # "loading"

AfterAdsRequest(Sold, S) ==
  IF NewAdsRequest(Sold, S)
  THEN EnsureExternalScript(ScriptState, "ima")
  ELSE ScriptState

\* VideoEngine.setActiveItem, on <<activeItem, engineLog>>
SetActiveItemOp(active, log, item) ==
  IF active = item THEN <<active, log>>
  ELSE <<item, Append(log, <<"ACTIVE_VIDEO_ITEM_CHANGED", item>>)>>

\* VideoEngine.createVideoItem, duplicate id: throws before any effect
CreateThrow(id) ==
  /\ lastOp' = [NoOp EXCEPT !.op = "createVideoItem", !.id = id,
                            !.ret = "threw"]
  /\ sess' = FreshAll
  /\ engineLog' = <<>>
  /\ UNCHANGED <<engineVars, creates, scriptVars>>

\* VideoEngine.createVideoItem up to its await of item.init
CreateFresh(id, props) ==
  /\ FreeInsts # {}
  /\ LET n == CHOOSE m \in FreeInsts : \A o \in FreeInsts : m <= o
         S0 == NewVideoItem(id, props, globalVolume, globalMuted)
         S1 == On(On(S0, "REQUEST_GLOBAL_VOLUME", "engineVolume"),
                  "REQUEST_GLOBAL_MUTE", "engineMute")
     IN /\ sess' = Put(n, InitStart(S1))
        /\ items' = [items EXCEPT ![id] = n]
        /\ engineHandlers' = engineHandlers \o
                               << [ev |-> "VOLUME_CHANGED", inst |-> n],
                                  [ev |-> "MUTE_CHANGED", inst |-> n] >>
        /\ creates' = [creates EXCEPT ![n] = "awaiting"]
        /\ lastOp' = [NoOp EXCEPT !.op = "createVideoItem", !.id = id,
                                  !.inst = n, !.ret = "pending"]
  /\ engineLog' = <<>>
  /\ UNCHANGED <<activeItem, globalVolume, globalMuted, scriptVars>>

\* a faulty CreateVideoItem: no check of the id
CreateVideoItemNoCheck(id, props) == CreateFresh(id, props)

CreateVideoItem(id, props) ==
  IF items[id] # NoItem THEN CreateThrow(id) ELSE CreateFresh(id, props)

\* The source load of manager k of session n settles: VideoItem.init
\* continues and, for the init made by createVideoItem (the first of the
\* instance), createVideoItem continues after it.
LoadSettle(n, k, ok, oracle) ==
  /\ n \in Constructed
  /\ k \in 1..Len(sess[n].pms)
  /\ sess[n].pms[k].load = "pending"
  /\ LET S0 == [Fresh(sess[n]) EXCEPT !.oracle = oracle]
         S == InitSettle(S0, k, ok)
         SC == AfterAdsRequest(S0, S)
         fromCreate == k = 1 /\ creates[n] = "awaiting"
         created == <<"VIDEO_ITEM_CREATED", n>>
         act == IF fromCreate /\ ok /\ activeItem = NoItem
                THEN SetActiveItemOp(activeItem, <<created>>, n)
                ELSE <<activeItem, IF fromCreate /\ ok THEN <<created>>
                                   ELSE <<>> >>
     IN /\ Len(S.plays) <= MaxPlays + 1
        /\ Len(SC.loads) <= MaxLoads
        /\ sess' = Put(n, [S EXCEPT !.adLoad = IF NewAdsRequest(S0, S)
                                               THEN SC.via ELSE @])
        /\ loadedScripts' = SC.loaded
        /\ scriptPromises' = SC.promises
        /\ loads' = SC.loads
        /\ activeItem' = act[1]
        /\ engineLog' = act[2]
        /\ creates' = IF fromCreate
                      THEN [creates EXCEPT ![n] = IF ok THEN "resolved"
                                                  ELSE "rejected"]
                      ELSE creates
        /\ lastOp' = [NoOp EXCEPT !.op = "loadSettle", !.inst = n, !.k = k,
                                  !.ret = S.ret]
  /\ UNCHANGED <<items, globalVolume, globalMuted, engineHandlers, callers>>

\* a faulty DisposeVideoItem: the active reference is kept
DisposeVideoItemKeepActive(id) ==
  /\ items[id] # NoItem
  /\ LET n == items[id]
     IN /\ sess' = Put(n, Dispose(Fresh(sess[n])))
        /\ items' = [items EXCEPT ![id] = NoItem]
        /\ activeItem' = activeItem
        /\ engineLog' = << <<"VIDEO_ITEM_DISPOSED", id>> >>
        /\ lastOp' = [NoOp EXCEPT !.op = "disposeVideoItem", !.id = id,
                                  !.inst = n]
  /\ UNCHANGED <<globalVolume, globalMuted, engineHandlers, creates,
                 scriptVars>>

\* VideoEngine.disposeVideoItem for an id in the map (for any other it
\* returns at once)
DisposeVideoItem(id) ==
  /\ items[id] # NoItem
  /\ LET n == items[id]
         act == IF activeItem = n
                THEN SetActiveItemOp(activeItem, <<>>, NoItem)
                ELSE <<activeItem, <<>> >>
     IN /\ sess' = Put(n, Dispose(Fresh(sess[n])))
        /\ items' = [items EXCEPT ![id] = NoItem]
        /\ activeItem' = act[1]
        /\ engineLog' = Append(act[2], <<"VIDEO_ITEM_DISPOSED", id>>)
        /\ lastOp' = [NoOp EXCEPT !.op = "disposeVideoItem", !.id = id,
                                  !.inst = n]
  /\ UNCHANGED <<globalVolume, globalMuted, engineHandlers, creates,
                 scriptVars>>

\* VideoEngine.setActiveItem(item), item a VideoItem the host holds or null
SetActiveItem(item) ==
  /\ item \in Constructed \cup {NoItem}
  /\ LET act == SetActiveItemOp(activeItem, <<>>, item)
     IN activeItem' = act[1] /\ engineLog' = act[2]
  /\ sess' = FreshAll
  /\ lastOp' = [NoOp EXCEPT !.op = "setActiveItem", !.inst = item]
  /\ UNCHANGED <<items, globalVolume, globalMuted, engineHandlers, creates,
                 scriptVars>>

\* VideoEngine.emit of VOLUME_CHANGED / MUTE_CHANGED: the bridge handlers of
\* setupVideoItemEventListeners, in registration order, from the k-th
RECURSIVE EngineEmit(_, _, _, _)
RECURSIVE EngineEmitToAll(_, _, _, _)

\* a faulty EngineEmit: the bridge handlers do not look at the active item
EngineEmitToAll(ss, ev, payload, k) ==
  IF k > Len(engineHandlers) THEN ss
  ELSE LET h == engineHandlers[k]
       IN IF h.ev = ev
          THEN EngineEmitToAll([ss EXCEPT ![h.inst] =
                                  IF ev = "VOLUME_CHANGED"
                                  THEN SetVolume(ss[h.inst], payload)
                                  ELSE SetMuted(ss[h.inst], payload)],
                               ev, payload, k + 1)
          ELSE EngineEmitToAll(ss, ev, payload, k + 1)

EngineEmit(ss, ev, payload, k) ==
  IF k > Len(engineHandlers) THEN ss
  ELSE LET h == engineHandlers[k]
       IN IF h.ev = ev /\ activeItem = h.inst
          THEN EngineEmit([ss EXCEPT ![h.inst] =
                             IF ev = "VOLUME_CHANGED"
                             THEN SetVolume(ss[h.inst], payload)
                             ELSE SetMuted(ss[h.inst], payload)],
                          ev, payload, k + 1)
          ELSE EngineEmit(ss, ev, payload, k + 1)

\* VideoEngine.setVolume
EngineSetVolume(v) ==
  /\ IF globalVolume = Clamp(v)
     THEN /\ UNCHANGED globalVolume
          /\ engineLog' = <<>>
          /\ sess' = FreshAll
     ELSE /\ globalVolume' = Clamp(v)
          /\ engineLog' = << <<"VOLUME_CHANGED", Clamp(v)>> >>
          /\ sess' = EngineEmit(FreshAll, "VOLUME_CHANGED", Clamp(v), 1)
  /\ lastOp' = [NoOp EXCEPT !.op = "engineSetVolume", !.val = v]
  /\ UNCHANGED <<items, activeItem, globalMuted, engineHandlers, creates,
                 scriptVars>>

\* VideoEngine.setMuted
EngineSetMuted(b) ==
  /\ IF globalMuted = b
     THEN /\ UNCHANGED globalMuted
          /\ engineLog' = <<>>
          /\ sess' = FreshAll
     ELSE /\ globalMuted' = b
          /\ engineLog' = << <<"MUTE_CHANGED", b>> >>
          /\ sess' = EngineEmit(FreshAll, "MUTE_CHANGED", b, 1)
  /\ lastOp' = [NoOp EXCEPT !.op = "engineSetMuted",
                            !.val = IF b THEN 1 ELSE 0]
  /\ UNCHANGED <<items, activeItem, globalVolume, engineHandlers, creates,
                 scriptVars>>


(***************************************************************************)
(* Calls the host makes on a VideoItem it holds, the signals of the player *)
(* delegate, and the continuations of awaited promises.                    *)
(***************************************************************************)
SessionOp(name, n) == [NoOp EXCEPT !.op = name, !.inst = n]

SessionFrame == UNCHANGED <<engineVars, creates, scriptVars>>
                  /\ engineLog' = <<>>

\* item.init(container) called by the host on an existing VideoItem
ItemInit(n) ==
  /\ n \in Constructed
  /\ sess[n].initialized \/ Len(sess[n].pms) < MaxInits
  /\ LET S == InitStart(Fresh(sess[n]))
     IN /\ sess' = Put(n, S)
        /\ lastOp' = [SessionOp("init", n) EXCEPT !.ret = S.ret]
  /\ SessionFrame

\* item.play(), the backend answering a play request as `oracle` says
ItemPlay(n, oracle) ==
  /\ n \in Constructed
  /\ Len(sess[n].plays) < MaxPlays
  /\ LET S == Play([Fresh(sess[n]) EXCEPT !.oracle = oracle])
     IN /\ sess' = Put(n, S)
        /\ lastOp' = [SessionOp("play", n) EXCEPT !.ret = S.ret]
  /\ SessionFrame

\* a pending delegate play of session n settles and play() continues
ItemPlaySettle(n, j, oracle) ==
  /\ n \in Constructed
  /\ j \in 1..Len(sess[n].plays)
  /\ LET S == PlaySettle([Fresh(sess[n]) EXCEPT !.oracle = oracle], j)
     IN /\ sess' = Put(n, S)
        /\ lastOp' = [SessionOp("playSettle", n) EXCEPT !.ret = S.ret, !.k = j]
  /\ SessionFrame

\* item.pause(); a pause requested during a stall is remembered
ItemPause(n) ==
  /\ n \in Constructed
  /\ sess' = Put(n, [Pause(Fresh(sess[n])) EXCEPT !.stallPause = TRUE])
  /\ lastOp' = SessionOp("pause", n)
  /\ SessionFrame

\* item.seekTo(seconds)
ItemSeekTo(n) ==
  /\ n \in Constructed
  /\ sess' = Put(n, SeekTo(Fresh(sess[n]), 1))
  /\ lastOp' = SessionOp("seekTo", n)
  /\ SessionFrame

\* item.setVolume(v)
\* item.on(ev, h) called by the host
ItemOn(n, ev, h) ==
  /\ n \in Constructed
  /\ sess' = Put(n, On(Fresh(sess[n]), ev, h))
  /\ lastOp' = [SessionOp("on", n) EXCEPT !.sig = h]
  /\ SessionFrame

\* item.off(ev, h) called by the host
ItemOff(n, ev, h) ==
  /\ n \in Constructed
  /\ sess' = Put(n, Off(Fresh(sess[n]), ev, h))
  /\ lastOp' = [SessionOp("off", n) EXCEPT !.sig = h]
  /\ SessionFrame

ItemSetVolume(n, v) ==
  /\ n \in Constructed
  /\ sess' = Put(n, SetVolume(Fresh(sess[n]), v))
  /\ lastOp' = [SessionOp("setVolume", n) EXCEPT !.val = v]
  /\ SessionFrame

\* item.setMuted(b)
ItemSetMuted(n, b) ==
  /\ n \in Constructed
  /\ sess' = Put(n, SetMuted(Fresh(sess[n]), b))
  /\ lastOp' = [SessionOp("setMuted", n) EXCEPT !.val = IF b THEN 1 ELSE 0]
  /\ SessionFrame

\* item.update(props)
ItemUpdate(n, props) ==
  /\ n \in Constructed
  /\ sess' = Put(n, Update(Fresh(sess[n]), props))
  /\ lastOp' = SessionOp("update", n)
  /\ SessionFrame

\* item.dispose() called by the host directly
\* item.dispose() in which the teardown of the player throws
ItemDisposeInterrupted(n) ==
  /\ n \in Constructed
  /\ sess[n].playerManager # 0
  /\ BoundPM(sess[n]).adapter
  /\ sess' = Put(n, DisposeInterrupted(Fresh(sess[n])))
  /\ lastOp' = [SessionOp("dispose", n) EXCEPT !.ret = "threw"]
  /\ SessionFrame

ItemDispose(n) ==
  /\ n \in Constructed
  /\ sess' = Put(n, Dispose(Fresh(sess[n])))
  /\ lastOp' = SessionOp("dispose", n)
  /\ SessionFrame

\* what the backend can signal: `play`, `playing` and `waiting` come from an
\* element that is not paused; the others at any time
CanSignal(pm, sig) ==
  /\ pm.adapter
  /\ sig \in {"play", "playing", "waiting"} => ~pm.paused

\* the adapter of manager k of session n emits sig
DelegateSignal(n, k, sig) ==
  /\ n \in Constructed
  /\ k \in 1..Len(sess[n].pms)
  /\ CanSignal(sess[n].pms[k], sig)
  /\ sig = "ended" => sess[n].endTimers < MaxTimers
  /\ LET S == OnSignal(Fresh(sess[n]), sig)
         stalled == sess[n].state = "playing" /\ S.state = "buffering"
     IN sess' = Put(n, IF stalled
                       THEN [S EXCEPT !.stallPause = FALSE, !.stallPm = k]
                       ELSE S)
  /\ lastOp' = [SessionOp("signal", n) EXCEPT !.k = k, !.sig = sig,
                                              !.prev = sess[n].state]
  /\ SessionFrame

\* a pending setTimeout callback of the EndScreenManager of session n runs:
\* showEndScreen()
EndScreenTimer(n) ==
  /\ n \in Constructed
  /\ sess[n].endTimers > 0
  /\ sess' = Put(n, [ShowEndScreen(Fresh(sess[n])) EXCEPT !.endTimers = @ - 1])
  /\ lastOp' = SessionOp("endScreenTimer", n)
  /\ SessionFrame

\* d seconds pass on the clock the units of session n read
Tick(n, d) ==
  /\ n \in Constructed
  /\ sess[n].now + d <= MaxClock
  /\ sess' = Put(n, [Fresh(sess[n]) EXCEPT !.now = @ + d])
  /\ lastOp' = [SessionOp("tick", n) EXCEPT !.val = d]
  /\ SessionFrame

(***************************************************************************)
(* External scripts.                                                       *)
(***************************************************************************)
\* the loads of a name that have not settled
PendingLoads(name) ==
  {l \in 1..Len(loads) : loads[l].name = name /\ loads[l].status = "pending"}

\* engine.ensureExternalScript(name) called by the host; the call is
\* remembered with what it awaits and the loads in flight when it was made
HostEnsureScript(name) ==
  /\ Len(callers) < MaxCallers
  /\ LET SC == EnsureExternalScript(ScriptState, name)
     IN /\ Len(SC.loads) <= MaxLoads
        /\ loadedScripts' = SC.loaded
        /\ scriptPromises' = SC.promises
        /\ loads' = SC.loads
        /\ callers' = Append(callers, [name |-> name, via |-> SC.via,
                                       inFlight |-> PendingLoads(name)])
        /\ lastOp' = [NoOp EXCEPT !.op = "ensureExternalScript", !.id = name,
                                  !.k = SC.via]
  /\ sess' = FreshAll
  /\ engineLog' = <<>>
  /\ UNCHANGED <<engineVars, creates>>

\* loadScript: only the "ima" loader has a failure path (script.onerror)
CanFail(name) == name = "ima"

\* a faulty ScriptLoadSettle: a failed load keeps its in-flight entry
ScriptLoadSettleKeepEntry(l, ok) ==
  /\ l \in 1..Len(loads)
  /\ loads[l].status = "pending"
  /\ ok \/ CanFail(loads[l].name)
  /\ loads' = [loads EXCEPT ![l].status = IF ok THEN "resolved" ELSE "rejected"]
  /\ loadedScripts' = IF ok THEN loadedScripts \cup {loads[l].name}
                      ELSE loadedScripts
  /\ scriptPromises' = IF ok THEN [scriptPromises EXCEPT ![loads[l].name] = 0]
                       ELSE scriptPromises
  /\ lastOp' = [NoOp EXCEPT !.op = "scriptSettle", !.id = loads[l].name,
                            !.k = l, !.ret = IF ok THEN "resolved" ELSE "rejected"]
  /\ sess' = FreshAll
  /\ engineLog' = <<>>
  /\ UNCHANGED <<engineVars, creates, callers>>

\* The promise of load l settles and the call that started it continues:
\* on success the name is marked loaded, in both cases the in-flight entry
\* is deleted.
ScriptLoadSettle(l, ok) ==
  /\ l \in 1..Len(loads)
  /\ loads[l].status = "pending"
  /\ ok \/ CanFail(loads[l].name)
  /\ loads' = [loads EXCEPT ![l].status = IF ok THEN "resolved" ELSE "rejected"]
  /\ loadedScripts' = IF ok THEN loadedScripts \cup {loads[l].name}
                      ELSE loadedScripts
  /\ scriptPromises' = [scriptPromises EXCEPT ![loads[l].name] = 0]
  /\ lastOp' = [NoOp EXCEPT !.op = "scriptSettle", !.id = loads[l].name,
                            !.k = l, !.ret = IF ok THEN "resolved" ELSE "rejected"]
  /\ sess' = FreshAll
  /\ engineLog' = <<>>
  /\ UNCHANGED <<engineVars, creates, callers>>

\* how an ensureExternalScript call that awaits `via` ends
Outcome(via) == IF via = 0 THEN "resolved" ELSE loads[via].status

\* a faulty AdsInitFailed: the failure is surfaced on the session
AdsInitFailedSurfaced(S) ==
  Emit(SetState([S EXCEPT !.adState = "failed"], "error"), "ERROR", "adsError")

\* AdvertisementManager.initializeIMA, catch: the error is logged
AdsInitFailed(S) == [S EXCEPT !.adState = "failed"]

\* AdvertisementManager.initializeIMA after ensureExternalScript resolved:
\* waitForPlayer finds the video.js player of the bound manager or gives up
\* (throws into the catch); setupIMA mutes the player
AdsInitLoaded(S) ==
  IF S.playerManager # 0 /\ BoundPM(S).adapter
  THEN [(IF BoundPM(S).muted THEN S ELSE PMSetMuted(S, TRUE))
          EXCEPT !.adState = "loaded"]
  ELSE AdsInitFailed(S)

\* initializeIMA of the AdvertisementManager of session n continues after
\* its await of ensureExternalScript("ima")
AdsContinue(n) ==
  /\ n \in Constructed
  /\ sess[n].adState = "loading"
  /\ Outcome(sess[n].adLoad) # "pending"
  /\ LET S0 == Fresh(sess[n])
         S == IF Outcome(S0.adLoad) = "resolved" THEN AdsInitLoaded(S0)
              ELSE AdsInitFailed(S0)
     IN /\ sess' = Put(n, S)
        /\ lastOp' = [SessionOp("adsContinue", n) EXCEPT
                        !.ret = Outcome(S0.adLoad)]
  /\ SessionFrame


(***************************************************************************)
(* The state machine.                                                      *)
(***************************************************************************)
\* a fresh VideoEngine: no items, volume 1.0, not muted, nothing loaded
Init ==
  /\ items = [id \in Ids |-> NoItem]
  /\ activeItem = NoItem
  /\ globalVolume = VolOne
  /\ globalMuted = FALSE
  /\ engineHandlers = <<>>
  /\ engineLog = <<>>
  /\ sess = [n \in Insts |-> NoSession]
  /\ creates = [n \in Insts |-> "none"]
  /\ loadedScripts = {}
  /\ scriptPromises = [s \in ScriptNames |-> 0]
  /\ loads = <<>>
  /\ callers = <<>>
  /\ lastOp = NoOp

\* init properties the host passes to createVideoItem; an optional property
\* is the empty set when it is absent
PlainProps == [volume |-> {}, muted |-> {}, autoplay |-> FALSE,
               adsEnabled |-> FALSE, adTagUrl |-> FALSE,
               dataEndpoint |-> FALSE, gemiusId |-> FALSE,
               endscreenEnabled |-> FALSE, recommendationsEnabled |-> FALSE,
               chromecastEnabled |-> FALSE, airplayEnabled |-> FALSE,
               floatingEnabled |-> FALSE]
AutoplayProps == [PlainProps EXCEPT !.autoplay = TRUE]
DataProps == [PlainProps EXCEPT !.dataEndpoint = TRUE]
AdsProps == [PlainProps EXCEPT !.adsEnabled = TRUE, !.adTagUrl = TRUE]
AdsNoTagProps == [PlainProps EXCEPT !.adsEnabled = TRUE]
QuietProps == [PlainProps EXCEPT !.volume = {1}, !.muted = {TRUE}]

LoudProps == [PlainProps EXCEPT !.volume = {3}]

\* every optional capability configured (ads without a tag), and two
\* complementary halves of them
FullProps == [PlainProps EXCEPT !.dataEndpoint = TRUE, !.gemiusId = TRUE,
                                !.adsEnabled = TRUE,
                                !.endscreenEnabled = TRUE,
                                !.recommendationsEnabled = TRUE,
                                !.chromecastEnabled = TRUE,
                                !.airplayEnabled = TRUE,
                                !.floatingEnabled = TRUE]
DataHalfProps == [PlainProps EXCEPT !.dataEndpoint = TRUE,
                                    !.adsEnabled = TRUE,
                                    !.recommendationsEnabled = TRUE,
                                    !.airplayEnabled = TRUE]
AutoplayFullProps == [FullProps EXCEPT !.autoplay = TRUE]
CastHalfProps == [PlainProps EXCEPT !.gemiusId = TRUE,
                                    !.endscreenEnabled = TRUE,
                                    !.chromecastEnabled = TRUE,
                                    !.floatingEnabled = TRUE]

\* partial properties the host passes to update()
Updates == { [autoplay |-> TRUE], [muted |-> TRUE], [dataEndpoint |-> TRUE] }

\* Playback of one VideoItem: created by the engine, initialised (once or
\* again), played, paused, signalled by its delegates and disposed
Next ==
  \/ /\ Constructed = {}
     /\ CreateVideoItem("a", PlainProps)
  \/ \E n \in Insts, k \in 1..MaxInits, ok \in BOOLEAN :
        LoadSettle(n, k, ok, "ok")
  \/ \E n \in Insts : ItemInit(n)
  \/ \E n \in Insts, o \in {"ok", "OtherError"} : ItemPlay(n, o)
  \/ \E n \in Insts, j \in 1..(MaxPlays + 1) : ItemPlaySettle(n, j, "ok")
  \/ \E n \in Insts : ItemPause(n)
  \/ \E n \in Insts : ItemDispose(n)
  \/ \E n \in Insts, k \in 1..MaxInits, sig \in Signals :
        DelegateSignal(n, k, sig)

Spec == Init /\ [][Next]_vars

\* Composition of the managers of one VideoItem: configured with autoplay,
\* analytics or ads, initialised once or again, disposed, and moved out of
\* ready by its delegates
NextCompose ==
  \/ /\ Constructed = {}
     /\ \E props \in {AutoplayProps, DataProps, AdsNoTagProps} :
           CreateVideoItem("a", props)
  \/ \E n \in Insts, k \in 1..MaxInits, ok \in BOOLEAN, o \in PlayOutcomes :
        LoadSettle(n, k, ok, o)
  \/ \E n \in Insts : ItemInit(n)
  \/ \E n \in Insts, j \in 1..(MaxPlays + 1), o \in PlayOutcomes :
        ItemPlaySettle(n, j, o)
  \/ \E n \in Insts : ItemDispose(n)
  \/ DisposeVideoItem("a")
  \/ \E n \in Insts, k \in 1..MaxInits, sig \in {"pause", "ended", "playing"} :
        DelegateSignal(n, k, sig)

SpecCompose == Init /\ [][NextCompose]_vars

\* Every public operation of one VideoItem, before and after its disposal
NextOps ==
  \/ /\ Constructed = {}
     /\ CreateVideoItem("a", PlainProps)
  \/ \E n \in Insts, ok \in BOOLEAN : LoadSettle(n, 1, ok, "ok")
  \/ \E n \in Insts : ItemInit(n)
  \/ \E n \in Insts, o \in {"ok", "OtherError"} : ItemPlay(n, o)
  \/ \E n \in Insts, j \in 1..(MaxPlays + 1) : ItemPlaySettle(n, j, "ok")
  \/ \E n \in Insts : ItemPause(n)
  \/ \E n \in Insts : ItemSeekTo(n)
  \/ \E n \in Insts : ItemSetVolume(n, 1)
  \/ \E n \in Insts : ItemSetMuted(n, TRUE)
  \/ \E n \in Insts : ItemUpdate(n, [autoplay |-> TRUE])
  \/ \E n \in Insts : ItemDispose(n)
  \/ \E n \in Insts : DelegateSignal(n, 1, "playing")

SpecOps == Init /\ [][NextOps]_vars

\* The registry: sessions created under two ids, disposed and made active,
\* and the engine muted
NextRegistry ==
  \/ \E id \in Ids : CreateVideoItem(id, PlainProps)
  \/ \E n \in Insts, ok \in BOOLEAN : LoadSettle(n, 1, ok, "ok")
  \/ \E id \in Ids : DisposeVideoItem(id)
  \/ \E item \in Insts \cup {NoItem} : SetActiveItem(item)
  \/ EngineSetMuted(TRUE)

SpecRegistry == Init /\ [][NextRegistry]_vars

\* The script loader alone: calls of the host and loads settling
NextScripts ==
  \/ \E name \in ScriptNames : HostEnsureScript(name)
  \/ \E l \in 1..MaxLoads, ok \in BOOLEAN : ScriptLoadSettle(l, ok)

SpecScripts == Init /\ [][NextScripts]_vars

\* One VideoItem with ads enabled: the AdvertisementManager asks for the
\* "ima" script, which loads or fails, while the session is played and paused
NextAds ==
  \/ /\ Constructed = {}
     /\ \E props \in {AdsProps, PlainProps} : CreateVideoItem("a", props)
  \/ \E n \in Insts, ok \in BOOLEAN : LoadSettle(n, 1, ok, "ok")
  \/ HostEnsureScript("ima")
  \/ \E l \in 1..MaxLoads, ok \in BOOLEAN : ScriptLoadSettle(l, ok)
  \/ \E n \in Insts : AdsContinue(n)
  \/ \E n \in Insts, o \in {"ok", "OtherError"} : ItemPlay(n, o)
  \/ \E n \in Insts, j \in 1..(MaxPlays + 1) : ItemPlaySettle(n, j, "ok")
  \/ \E n \in Insts : ItemPause(n)
  \/ \E n \in Insts, sig \in {"playing", "pause"} : DelegateSignal(n, 1, sig)

SpecAds == Init /\ [][NextAds]_vars

\* Volume: every way a volume enters the engine or a VideoItem
NextVolume ==
  \/ /\ Constructed = {}
     /\ \E props \in {PlainProps, QuietProps, LoudProps} :
           CreateVideoItem("a", props)
  \/ \E n \in Insts, ok \in BOOLEAN : LoadSettle(n, 1, ok, "ok")
  \/ \E n \in Insts, v \in VolInputs : ItemSetVolume(n, v)
  \/ \E n \in Insts, v \in VolInputs : ItemUpdate(n, [volume |-> v])
  \/ \E v \in VolInputs : EngineSetVolume(v)
  \/ \E n \in Insts : ItemDispose(n)

SpecVolume == Init /\ [][NextVolume]_vars

\* play() and its muted retry: sessions created muted or not, muted and
\* unmuted by the host, the backend answering each play request with success,
\* an autoplay-policy rejection or another error
NextPlay ==
  \/ /\ Constructed = {}
     /\ \E props \in {PlainProps, QuietProps} : CreateVideoItem("a", props)
  \/ \E n \in Insts, ok \in BOOLEAN : LoadSettle(n, 1, ok, "ok")
  \/ \E n \in Insts, o \in PlayOutcomes : ItemPlay(n, o)
  \/ \E n \in Insts, j \in 1..(MaxPlays + 1), o \in PlayOutcomes :
        ItemPlaySettle(n, j, o)
  \/ \E n \in Insts, b \in BOOLEAN : ItemSetMuted(n, b)
  \/ \E n \in Insts : ItemDispose(n)

SpecPlay == Init /\ [][NextPlay]_vars

\* The event bus of one VideoItem: the host subscribes and unsubscribes
\* functions to VOLUME_CHANGED and publishes it by setting the volume; the
\* load completing publishes STATE_CHANGED to the VideoItem's own handler
\* and to those of the data manager it composes
NextBus ==
  \/ /\ Constructed = {}
     /\ \E props \in {PlainProps, DataProps} : CreateVideoItem("a", props)
  \/ \E n \in Insts, ok \in BOOLEAN : LoadSettle(n, 1, ok, "ok")
  \/ \E n \in Insts, h \in {"hostA", "hostThrow", "hostSub"} :
        ItemOn(n, "VOLUME_CHANGED", h)
  \/ \E n \in Insts, h \in HostHandlers : ItemOff(n, "VOLUME_CHANGED", h)
  \/ \E n \in Insts : ItemSetVolume(n, 1)
  \/ \E n \in Insts : ItemDispose(n)

SpecBus == Init /\ [][NextBus]_vars

\* The engine's global volume and mute: two sessions, one of them (or none)
\* active, and the host setting the global values
NextGlobal ==
  \/ \E id \in Ids : CreateVideoItem(id, PlainProps)
  \/ \E n \in Insts : LoadSettle(n, 1, TRUE, "ok")
  \/ \E item \in Insts \cup {NoItem} : SetActiveItem(item)
  \/ \E v \in {1, 3} : EngineSetVolume(v)
  \/ \E b \in BOOLEAN : EngineSetMuted(b)

SpecGlobal == Init /\ [][NextGlobal]_vars

\* Composition under every capability: a VideoItem created with all, half
\* or none of the optional capabilities, reconfigured by update() before
\* and after it is ready, played and disposed
NextUnits ==
  \/ /\ Constructed = {}
     /\ \E props \in {PlainProps, FullProps, DataHalfProps, CastHalfProps,
                       AutoplayFullProps} :
           CreateVideoItem("a", props)
  \/ \E n \in Insts, ok \in BOOLEAN : LoadSettle(n, 1, ok, "ok")
  \/ \E n \in Insts : ItemPlaySettle(n, 1, "ok")
  \/ \E n \in Insts,
        u \in { [endscreenEnabled |-> TRUE], [dataEndpoint |-> FALSE],
                [airplayEnabled |-> FALSE] } : ItemUpdate(n, u)
  \/ \E n \in Insts : ItemDispose(n)

SpecUnits == Init /\ [][NextUnits]_vars

\* Disposal: a VideoItem with all, half or none of the optional units,
\* loaded or not, disposed once or again, the teardown of its player
\* completing or throwing, and the delegate signalling in between
NextDispose ==
  \/ /\ Constructed = {}
     /\ \E props \in {PlainProps, FullProps, DataHalfProps, CastHalfProps} :
           CreateVideoItem("a", props)
  \/ \E n \in Insts, ok \in BOOLEAN : LoadSettle(n, 1, ok, "ok")
  \/ \E n \in Insts : ItemDispose(n)
  \/ \E n \in Insts : ItemDisposeInterrupted(n)
  \/ \E n \in Insts, sig \in {"pause", "ended"} : DelegateSignal(n, 1, sig)

SpecDispose == Init /\ [][NextDispose]_vars

\* a VideoItem with the end screen and the recommendations
OverlayProps == [PlainProps EXCEPT !.endscreenEnabled = TRUE,
                                   !.recommendationsEnabled = TRUE]

\* Overlays: a VideoItem with an end screen and recommendations, played to
\* its end and again, its end-screen timers running when they are due, and
\* disposed at any point
NextOverlay ==
  \/ /\ Constructed = {}
     /\ CreateVideoItem("a", OverlayProps)
  \/ \E n \in Insts : LoadSettle(n, 1, TRUE, "ok")
  \/ \E n \in Insts : ItemPlay(n, "ok")
  \/ \E n \in Insts : ItemPlaySettle(n, 1, "ok")
  \/ \E n \in Insts, sig \in {"playing", "pause", "ended"} :
        DelegateSignal(n, 1, sig)
  \/ \E n \in Insts : EndScreenTimer(n)
  \/ \E n \in Insts : ItemDispose(n)

SpecOverlay == Init /\ [][NextOverlay]_vars

\* Analytics: a VideoItem with a data endpoint, its delegate reporting the
\* playback position at any rate while the clock advances
NextThrottle ==
  \/ /\ Constructed = {}
     /\ CreateVideoItem("a", DataProps)
  \/ \E n \in Insts : LoadSettle(n, 1, TRUE, "ok")
  \/ \E n \in Insts : DelegateSignal(n, 1, "timeupdate")
  \/ \E n \in Insts, d \in {1, 4} : Tick(n, d)

SpecThrottle == Init /\ [][NextThrottle]_vars

(***************************************************************************)
(* Properties.                                                             *)
(***************************************************************************)
\* how many times event ev is in a log of <<event, payload>> entries
Published(log, ev) == Cardinality({i \in 1..Len(log) : log[i][1] = ev})

Sessions == {n \in Insts : sess[n] # NoSession}

\* the last step was signal sig of the delegate session n is bound to
BoundSignal(n, sig) ==
  /\ lastOp.op = "signal" /\ lastOp.inst = n /\ lastOp.sig = sig
  /\ lastOp.k = sess[n].playerManager

\* C1: createVideoItem with an id that is in the registry (its session ready
\* or still initialising) fails, and the step leaves the registry, the
\* active session and the global volume and mute as they were and publishes
\* nothing on the engine.
C1_DuplicateIdRejected ==
  [][ (lastOp'.op = "createVideoItem" /\ items[lastOp'.id] # NoItem)
        => /\ lastOp'.ret = "threw"
           /\ items' = items
           /\ activeItem' = activeItem
           /\ globalVolume' = globalVolume /\ globalMuted' = globalMuted
           /\ creates' = creates
           /\ engineLog' = <<>> ]_vars

\* a duplicate create has thrown while the first create of the id was still
\* awaiting its init
C1_Witness ==
  /\ lastOp.op = "createVideoItem" /\ lastOp.ret = "threw"
  /\ items[lastOp.id] # NoItem
  /\ creates[items[lastOp.id]] = "awaiting"

\* C2: the managers of a session are composed at most once in its lifetime,
\* however many times it enters ready.
C2_ComposedAtMostOnce == \A n \in Sessions : sess[n].composed <= 1

\* a second init has brought the session to ready again after the first had
\* loaded, and the managers are still those composed once
C2_Witness ==
  \E n \in Sessions :
    /\ lastOp.op = "loadSettle" /\ lastOp.inst = n /\ lastOp.k = 2
    /\ lastOp.ret = "resolved"
    /\ Published(sess[n].log, "STATE_CHANGED") = 1
    /\ sess[n].state = "ready"
    /\ sess[n].pms[1].load = "ok"
    /\ sess[n].composed = 1

\* C3: a successful load leaves the session ready; the playing signal of
\* its delegate leaves it playing with PLAY published exactly once; the pause
\* signal of its delegate leaves it paused with PAUSE published exactly once.
C3_CreateLoadPlayPause ==
  \A n \in Sessions :
    /\ (lastOp.op = "loadSettle" /\ lastOp.inst = n /\ lastOp.ret = "resolved")
         => sess[n].state = "ready"
    /\ BoundSignal(n, "playing")
         => sess[n].state = "playing" /\ Published(sess[n].log, "PLAY") = 1
    /\ BoundSignal(n, "pause")
         => sess[n].state = "paused" /\ Published(sess[n].log, "PAUSE") = 1

\* the session created by the engine has loaded, played and now been paused
\* from playing by its delegate
C3_Witness ==
  \E n \in Sessions :
    /\ BoundSignal(n, "pause") /\ lastOp.prev = "playing"
    /\ creates[n] = "resolved"
    /\ sess[n].state = "paused"
    /\ sess[n].log = << <<"PAUSE", "none">>, <<"STATE_CHANGED", "paused">> >>

\* C4: a play() request and its continuation publish no PLAY and leave the
\* state as it was; the raw `play` signal of a delegate publishes nothing and
\* leaves the state as it was; a session that is ready or paused becomes
\* playing only in a step that is the `playing` signal of a delegate.
C4_PlayingOnlyOnPlayingSignal ==
  [][ \A n \in Sessions :
        /\ (lastOp'.inst = n /\ lastOp'.op \in {"play", "playSettle"})
             => /\ Published(sess'[n].log, "PLAY") = 0
                /\ sess'[n].state = sess[n].state
        /\ (lastOp'.inst = n /\ lastOp'.op = "signal" /\ lastOp'.sig = "play")
             => /\ sess'[n].log = <<>>
                /\ sess'[n].state = sess[n].state
        /\ (sess[n].state \in {"ready", "paused"} /\ sess'[n].state = "playing")
             => /\ lastOp'.op = "signal" /\ lastOp'.inst = n
                /\ lastOp'.sig = "playing" ]_vars

\* a play() request has been accepted by the backend, the raw `play` signal
\* has come, and the session is still ready
C4_Witness ==
  \E n \in Sessions :
    /\ lastOp.op = "signal" /\ lastOp.inst = n /\ lastOp.sig = "play"
    /\ lastOp.k = sess[n].playerManager
    /\ sess[n].state = "ready"
    /\ ~sess[n].pms[lastOp.k].paused
    /\ sess[n].log = <<>>

\* C5: when the end-of-stream signal of the delegate comes to a session that
\* is already ended (the signal has fired before), ENDED is not published
\* again.
C5_EndedPublishedOnce ==
  \A n \in Sessions :
    (BoundSignal(n, "ended") /\ lastOp.prev = "ended")
      => Published(sess[n].log, "ENDED") = 0

\* C6: a stall signal of a delegate moves a playing session to buffering;
\* when the stall came from the delegate the session is bound to and no
\* pause() was requested since, the resume signal (canplay or playing) of
\* that delegate moves the session back to playing.
C6_BufferingRoundTrip ==
  [][ \A n \in Sessions :
        /\ (/\ lastOp'.op = "signal" /\ lastOp'.inst = n
            /\ lastOp'.sig = "waiting"
            /\ sess[n].state = "playing")
             => sess'[n].state = "buffering"
        /\ (/\ lastOp'.op = "signal" /\ lastOp'.inst = n
            /\ lastOp'.sig \in {"canplay", "playing"}
            /\ lastOp'.k = sess[n].playerManager
            /\ sess[n].state = "buffering"
            /\ sess[n].stallPm = lastOp'.k
            /\ ~sess[n].stallPause)
             => sess'[n].state = "playing" ]_vars

\* a stall has ended with the canplay signal and the session is playing again
C6_Witness ==
  \E n \in Sessions :
    /\ BoundSignal(n, "canplay") /\ lastOp.prev = "buffering"
    /\ sess[n].state = "playing"
    /\ sess[n].log = << <<"BUFFER_END", "none">>, <<"STATE_CHANGED", "playing">> >>

\* C7: disposeVideoItem(id) of a registered id leaves the id unregistered,
\* clears the active session if and only if it was that session (leaving it
\* as it was otherwise), and publishes VIDEO_ITEM_DISPOSED for the id exactly
\* once.
C7_DisposeVideoItem ==
  [][ lastOp'.op = "disposeVideoItem"
        => /\ items[lastOp'.id] # NoItem
           /\ items'[lastOp'.id] = NoItem
           /\ activeItem' = IF activeItem = items[lastOp'.id] THEN NoItem
                            ELSE activeItem
           /\ Cardinality({i \in 1..Len(engineLog') :
                 engineLog'[i] = <<"VIDEO_ITEM_DISPOSED", lastOp'.id>>}) = 1
           /\ Published(engineLog', "VIDEO_ITEM_DISPOSED") = 1 ]_vars

\* the active session has been disposed through the engine while another
\* session stays registered: the active reference is cleared
C7_Witness ==
  /\ lastOp.op = "disposeVideoItem"
  /\ activeItem = NoItem
  /\ engineLog = << <<"ACTIVE_VIDEO_ITEM_CHANGED", NoItem>>,
                    <<"VIDEO_ITEM_DISPOSED", lastOp.id>> >>
  /\ \E id \in Ids : items[id] # NoItem

\* C8: on a disposed session every public operation (init, play, pause,
\* seekTo, setVolume, setMuted, update) is rejected or does nothing: it
\* leaves the lifecycle state and the configuration as they were.
C8_DisposedIsInert ==
  [][ \A n \in Sessions :
        (/\ sess[n].disposed
         /\ lastOp'.inst = n
         /\ lastOp'.op \in {"init", "play", "pause", "seekTo", "setVolume",
                            "setMuted", "update"})
          => /\ sess'[n].state = sess[n].state
             /\ sess'[n].config = sess[n].config ]_vars

\* C9: a call of ensureExternalScript made while a load of the same name is
\* in flight starts no load and awaits that load, so the callers share one
\* loader invocation and one outcome; at most one load per name is in flight.
C9_SharedLoad ==
  /\ \A i \in 1..Len(callers) :
       callers[i].inFlight # {} => callers[i].via \in callers[i].inFlight
  /\ \A name \in ScriptNames : Cardinality(PendingLoads(name)) <= 1
  /\ \A i, j \in 1..Len(callers) :
       (callers[i].name = callers[j].name /\ callers[j].inFlight # {}
          /\ callers[i].via \in callers[j].inFlight)
         => Outcome(callers[i].via) = Outcome(callers[j].via)

\* two callers have asked for "ima" before its load settled, the loader ran
\* once, and the load has failed for both
C9_Witness ==
  /\ Len(callers) >= 2
  /\ callers[1].name = "ima" /\ callers[2].name = "ima"
  /\ callers[2].inFlight = {callers[1].via}
  /\ Cardinality({l \in 1..Len(loads) : loads[l].name = "ima"}) = 1
  /\ Outcome(callers[1].via) = "rejected"
  /\ Outcome(callers[2].via) = "rejected"

\* what play(), pause() and createVideoItem depend on in a session
PlaybackCore(S) ==
  [state |-> S.state, initialized |-> S.initialized, config |-> S.config,
   playerManager |-> S.playerManager, pms |-> S.pms, plays |-> S.plays,
   handlers |-> S.handlers]

\* C10: when the load of the ad SDK script is rejected, the step in which
\* the AdvertisementManager learns it leaves the session's state, its
\* configuration, its delegates, its pending plays and its listeners as they
\* were, publishes nothing (no ERROR), and leaves the outcome of
\* createVideoItem as it was.
C10_AdsFailureIsolated ==
  [][ \A n \in Sessions :
        (lastOp'.op = "adsContinue" /\ lastOp'.inst = n
           /\ lastOp'.ret = "rejected")
          => /\ PlaybackCore(sess'[n]) = PlaybackCore(sess[n])
             /\ sess'[n].log = <<>>
             /\ sess'[n].err = "none"
             /\ creates' = creates
             /\ creates[n] = "resolved" ]_vars

\* the ad SDK failed to load for a session the engine created, and a later
\* play() of that session was accepted and its state is playing
C10_Witness ==
  \E n \in Sessions :
    /\ sess[n].adState = "failed"
    /\ creates[n] = "resolved"
    /\ BoundSignal(n, "playing")
    /\ sess[n].state = "playing"

\* C11: setVolume(v) on a session stores v brought into [0, 1] (0 below,
\* 1 above, v itself inside), publishes one VOLUME_CHANGED with that value,
\* and passes that value to the delegate when the session has one.
C11_SetVolumeClamps ==
  \A n \in Sessions :
    (lastOp.op = "setVolume" /\ lastOp.inst = n)
      => LET v == lastOp.val
             c == IF v < 0 THEN 0 ELSE IF v > VolOne THEN VolOne ELSE v
         IN /\ sess[n].config.volume = c
            /\ sess[n].log = << <<"VOLUME_CHANGED", c>> >>
            /\ sess[n].dcalls = IF sess[n].playerManager = 0 THEN <<>>
                                ELSE << <<"setVolume", c>> >>

\* setVolume(1.5) on a session with a delegate: 1.0 is stored, passed on and
\* published
C11_Witness ==
  \E n \in Sessions :
    /\ lastOp.op = "setVolume" /\ lastOp.inst = n /\ lastOp.val = 3
    /\ sess[n].playerManager # 0
    /\ sess[n].config.volume = VolOne
    /\ sess[n].dcalls = << <<"setVolume", VolOne>> >>

\* C12: the global volume and the volume of every session's configuration
\* lie in [0, 1] in every reachable state.
C12_VolumesInRange ==
  /\ globalVolume \in 0..VolOne
  /\ \A n \in Sessions : sess[n].config.volume \in 0..VolOne

\* C13: when the source load of a manager completes (either way) after its
\* session was disposed during the load, nothing is applied: the state stays
\* idle, no managers are composed, and the engine neither publishes
\* VIDEO_ITEM_CREATED nor changes the active session.
C13_DisposedInitIsCancelled ==
  [][ \A n \in Sessions :
        (/\ lastOp'.op = "loadSettle" /\ lastOp'.inst = n
         /\ sess[n].disposed /\ sess[n].state = "idle"
         /\ ~sess[n].pms[lastOp'.k].adapter)
          => /\ sess'[n].state = "idle"
             /\ sess'[n].composed = sess[n].composed
             /\ Published(engineLog', "VIDEO_ITEM_CREATED") = 0
             /\ activeItem' = activeItem ]_vars

\* C14: an init() call made while an earlier init() of the session is still
\* awaiting its source load makes no new player manager, registers no
\* listener and starts no load.
C14_NoConcurrentInit ==
  [][ \A n \in Sessions :
        (/\ lastOp'.op = "init" /\ lastOp'.inst = n
         /\ sess[n].state = "loading"
         /\ sess[n].playerManager # 0
         /\ sess[n].pms[sess[n].playerManager].load = "pending")
          => /\ sess'[n].pms = sess[n].pms
             /\ sess'[n].playerManager = sess[n].playerManager
             /\ sess'[n].handlers = sess[n].handlers ]_vars

\* C15: after the `error` signal of the delegate of a session that is not
\* disposed, ERROR has been published and the state is error.
C15_DelegateErrorSetsError ==
  \A n \in Sessions :
    (BoundSignal(n, "error") /\ ~sess[n].disposed)
      => /\ sess[n].log[1] = <<"ERROR", "playbackError">>
         /\ sess[n].state = "error"

\* C16: when the source load fails while the session is loading, the state
\* becomes error, STATE_CHANGED{error} and then one ERROR with the failure
\* are published, no managers are composed, init() rejects with the failure,
\* and so does the createVideoItem that awaits it.
C16_LoadFailure ==
  [][ \A n \in Sessions :
        (/\ lastOp'.op = "loadSettle" /\ lastOp'.inst = n
         /\ lastOp'.ret = "rejected"
         /\ sess[n].state = "loading")
          => /\ sess'[n].state = "error"
             /\ sess'[n].log = << <<"STATE_CHANGED", "error">>,
                                  <<"ERROR", "loadError">> >>
             /\ sess'[n].composed = sess[n].composed
             /\ sess'[n].units = sess[n].units
             /\ sess'[n].err = "loadError"
             /\ ~sess'[n].initialized
             /\ (lastOp'.k = 1 /\ creates[n] = "awaiting")
                  => /\ creates'[n] = "rejected"
                     /\ engineLog' = <<>>
                     /\ activeItem' = activeItem ]_vars

\* the load of the session the engine is creating has failed: the session is
\* in error, nothing is composed and createVideoItem has rejected
C16_Witness ==
  \E n \in Sessions :
    /\ lastOp.op = "loadSettle" /\ lastOp.inst = n /\ lastOp.k = 1
    /\ lastOp.ret = "rejected"
    /\ creates[n] = "rejected"
    /\ sess[n].state = "error"
    /\ sess[n].composed = 0
    /\ sess[n].log = << <<"STATE_CHANGED", "error">>, <<"ERROR", "loadError">> >>

\* C17: when a delegate play settles while the session still has its player
\* manager: success resolves play(); an autoplay-policy rejection of the
\* first attempt of an unmuted session mutes the delegate and plays once
\* more; a failed retry rejects play() with the first attempt's error and
\* plays no more; a rejection of a muted session, or any other error,
\* rejects play() with that error and without a retry.
C17_MutedRetryOnce ==
  [][ \A n \in Sessions :
        (/\ lastOp'.op = "playSettle" /\ lastOp'.inst = n
         /\ sess[n].playerManager # 0)
          => LET p == sess[n].plays[lastOp'.k]
                 T == sess'[n]
                 retried == /\ p.phase = "first"
                            /\ p.outcome = "NotAllowedError"
                            /\ ~PMIsMuted(sess[n])
             IN /\ p.outcome = "ok"
                     => /\ lastOp'.ret = "resolved"
                        /\ T.dcalls = <<>>
                /\ retried
                     => /\ lastOp'.ret = "pending"
                        /\ T.dcalls = << <<"setMuted", TRUE>>, <<"play", 0>> >>
                        /\ PMIsMuted(T)
                        /\ Len(T.plays) = Len(sess[n].plays)
                        /\ T.plays[Len(T.plays)].phase = "retry"
                        /\ T.plays[Len(T.plays)].first = "NotAllowedError"
                /\ (p.outcome # "ok" /\ p.phase = "retry")
                     => /\ lastOp'.ret = "rejected"
                        /\ T.err = p.first
                        /\ p.first = "NotAllowedError"
                        /\ T.dcalls = <<>>
                /\ (p.outcome # "ok" /\ p.phase = "first" /\ ~retried)
                     => /\ lastOp'.ret = "rejected"
                        /\ T.err = p.outcome
                        /\ T.dcalls = <<>>
                /\ ~retried => Len(T.plays) = Len(sess[n].plays) - 1 ]_vars

\* a retry failed with another error and play() rejected with the
\* autoplay-policy error of the first attempt
C17_Witness ==
  \E n \in Sessions :
    /\ lastOp.op = "playSettle" /\ lastOp.inst = n
    /\ lastOp.ret = "rejected"
    /\ sess[n].err = "NotAllowedError"
    /\ sess[n].playerManager # 0
    /\ PMIsMuted(sess[n])
    /\ ~sess[n].config.muted
    /\ sess[n].plays = <<>>

\* C18: play() on a session whose state is idle or error rejects, calls
\* nothing on the delegate, starts no delegate play and leaves the state as
\* it was.
C18_PlayRejectedWhenIdleOrError ==
  [][ \A n \in Sessions :
        (/\ lastOp'.op = "play" /\ lastOp'.inst = n
         /\ sess[n].state \in {"idle", "error"})
          => /\ lastOp'.ret = "rejected"
             /\ sess'[n].dcalls = <<>>
             /\ sess'[n].plays = sess[n].plays
             /\ sess'[n].state = sess[n].state
             /\ sess'[n].log = <<>> ]_vars

\* play() was rejected on a session in error that has a live delegate
C18_Witness ==
  \E n \in Sessions :
    /\ lastOp.op = "play" /\ lastOp.inst = n /\ lastOp.ret = "rejected"
    /\ sess[n].state = "error"
    /\ sess[n].playerManager # 0
    /\ BoundPM(sess[n]).adapter

\* C19: when setVolume publishes VOLUME_CHANGED, the handlers registered
\* for it when the publish began are all called within that step, each once
\* and in registration order, whether or not one of them throws; and unless
\* one of them subscribes another, the registrations are as they were.
C19_EmitCallsAllInOrder ==
  [][ \A n \in Sessions :
        (lastOp'.op = "setVolume" /\ lastOp'.inst = n)
          => LET H == sess[n].handlers
                 E == SelectSeq(sess'[n].ran, LAMBDA r : r.k <= Len(H))
                 R == SelectSeq(H, LAMBDA r : r.ev = "VOLUME_CHANGED")
             IN /\ Len(E) = Len(R)
                /\ \A i \in 1..Len(E) :
                     /\ E[i].ev = "VOLUME_CHANGED"
                     /\ E[i].h = R[i].h
                     /\ H[E[i].k] = R[i]
                /\ \A i, j \in 1..Len(E) : i < j => E[i].k < E[j].k
                /\ ~Registered(sess[n], "VOLUME_CHANGED", "hostSub")
                     => sess'[n].handlers = H ]_vars

\* a publish in which a handler threw and a handler registered after it was
\* called all the same
C19_Witness ==
  \E n \in Sessions :
    /\ lastOp.op = "setVolume" /\ lastOp.inst = n
    /\ \E i, j \in 1..Len(sess[n].ran) :
         /\ i < j
         /\ sess[n].ran[i].h = "hostThrow"
         /\ sess[n].ran[j].h = "hostA"

\* C20: no handler is called by a publish that began before the handler was
\* registered.
C20_NoLateSubscriberCalled ==
  \A n \in Sessions :
    \A i \in 1..Len(sess[n].ran) : sess[n].ran[i].k <= sess[n].ran[i].n0

\* C21: a session that has been disposed holds no feature unit and no
\* player manager, whatever happens to it afterwards.
C21_DisposedHoldsNothing ==
  \A n \in Sessions :
    sess[n].disposed => sess[n].playerManager = 0 /\ sess[n].units = {}

\* C22: when the load of a script is rejected, every call that awaits it is
\* rejected, the name has no in-flight entry and is not marked loaded; and a
\* call of ensureExternalScript for a name whose load was rejected, with none
\* in flight, starts a new load and awaits it.
C22_FailedLoadCanBeRetried ==
  [][ /\ (lastOp'.op = "scriptSettle" /\ lastOp'.ret = "rejected")
        => LET l == lastOp'.k
               name == lastOp'.id
           IN /\ scriptPromises'[name] = 0
              /\ name \notin loadedScripts'
              /\ \A m \in 1..Len(loads') :
                   loads'[m].name = name => loads'[m].status # "pending"
              /\ \A i \in 1..Len(callers') :
                   callers'[i].via = l => loads'[callers'[i].via].status = "rejected"
      /\ (/\ lastOp'.op = "ensureExternalScript"
          /\ PendingLoads(lastOp'.id) = {}
          /\ \E l \in 1..Len(loads) :
               loads[l].name = lastOp'.id /\ loads[l].status = "rejected"
          /\ lastOp'.id \notin loadedScripts)
        => /\ Len(loads') = Len(loads) + 1
           /\ loads'[Len(loads')] = [name |-> lastOp'.id, status |-> "pending"]
           /\ lastOp'.k = Len(loads')
           /\ callers'[Len(callers')].via = Len(loads')
           /\ scriptPromises'[lastOp'.id] = Len(loads') ]_vars

\* the load of "ima" was rejected for two callers and a third call has
\* started a second load
C22_Witness ==
  /\ lastOp.op = "ensureExternalScript" /\ lastOp.id = "ima" /\ lastOp.k = 2
  /\ Len(loads) = 2
  /\ loads[1] = [name |-> "ima", status |-> "rejected"]
  /\ loads[2] = [name |-> "ima", status |-> "pending"]
  /\ Len(callers) = 3
  /\ callers[1].via = 1 /\ callers[2].via = 1 /\ callers[3].via = 2

\* what a session resolves its volume and mute to, and what its delegates
\* were told
Audio(S) == [volume |-> S.config.volume, muted |-> S.config.muted,
             pms |-> S.pms]

\* C23: when the engine's setVolume or setMuted changes the global value,
\* the active session (if any) runs its own setVolume / setMuted once with
\* the new value, and every other session keeps its volume, its mute and
\* its delegates as they were and publishes nothing.
C23_GlobalAudioToActiveOnly ==
  [][ /\ (lastOp'.op = "engineSetVolume" /\ globalVolume' # globalVolume)
        => /\ globalVolume' = Clamp(lastOp'.val)
           /\ engineLog' = << <<"VOLUME_CHANGED", globalVolume'>> >>
           /\ \A n \in Sessions :
                IF n = activeItem
                THEN /\ sess'[n].config.volume = globalVolume'
                     /\ sess'[n].log = << <<"VOLUME_CHANGED", globalVolume'>> >>
                     /\ sess'[n].dcalls =
                          IF sess[n].playerManager = 0 THEN <<>>
                          ELSE << <<"setVolume", globalVolume'>> >>
                ELSE /\ Audio(sess'[n]) = Audio(sess[n])
                     /\ sess'[n].log = <<>> /\ sess'[n].dcalls = <<>>
      /\ (lastOp'.op = "engineSetMuted" /\ globalMuted' # globalMuted)
        => /\ engineLog' = << <<"MUTE_CHANGED", globalMuted'>> >>
           /\ \A n \in Sessions :
                IF n = activeItem
                THEN /\ sess'[n].config.muted = globalMuted'
                     /\ sess'[n].log = << <<"MUTE_CHANGED", globalMuted'>> >>
                     /\ sess'[n].dcalls =
                          IF sess[n].playerManager = 0 THEN <<>>
                          ELSE << <<"setMuted", globalMuted'>> >>
                ELSE /\ Audio(sess'[n]) = Audio(sess[n])
                     /\ sess'[n].log = <<>> /\ sess'[n].dcalls = <<>> ]_vars

\* the global volume was lowered with two sessions alive: the active one
\* follows, the other keeps the volume it was created with
C23_Witness ==
  /\ lastOp.op = "engineSetVolume" /\ lastOp.val = 1
  /\ globalVolume = 1
  /\ Cardinality(Sessions) = 2
  /\ activeItem \in Sessions
  /\ \A n \in Sessions :
       sess[n].config.volume = IF n = activeItem THEN 1 ELSE VolOne

Enabled(S) == {u \in DOMAIN UnitFlag : S.config[UnitFlag[u]]}

\* C24: the step in which a session's state first becomes ready composes
\* its units, and the units it then holds are exactly those whose
\* configuration field is true at that moment; afterwards the units held
\* change only when the session is disposed, whatever update() does to the
\* configuration.
C24_UnitsMatchConfiguration ==
  [][ \A n \in Sessions :
        /\ (/\ lastOp'.op = "loadSettle" /\ lastOp'.inst = n
            /\ lastOp'.ret = "resolved"
            /\ ~sess[n].disposed /\ sess[n].composed = 0)
             => sess'[n].composed = 1
        /\ sess'[n].composed # sess[n].composed
             => /\ sess'[n].state = "ready"
                /\ sess'[n].config = sess[n].config
                /\ sess'[n].units = Enabled(sess[n])
        /\ (sess'[n].composed = sess[n].composed /\ lastOp'.op # "dispose")
             => sess'[n].units = sess[n].units ]_vars

\* a session composed with half of the capabilities holds exactly those
\* units, and update() has since switched one of them off and another on
C24_Witness ==
  \E n \in Sessions :
    /\ sess[n].composed = 1 /\ ~sess[n].disposed
    /\ sess[n].units = {"data", "ads", "recommendations", "airplay"}
    /\ ~sess[n].config.dataEndpoint
    /\ sess[n].config.endscreenEnabled

\* C25: a session that has never composed holds no unit, and managers are
\* composed only in the step in which a source load of the session resolves,
\* with the state ready; when the session has had one player manager only,
\* that is the load of the delegate it is bound to.
C25_NoUnitBeforeReady ==
  [][ \A n \in Insts :
        sess'[n] # NoSession
          => LET before == IF sess[n] = NoSession THEN 0 ELSE sess[n].composed
             IN /\ sess'[n].composed = 0 => sess'[n].units = {}
                /\ sess'[n].composed # before
                     => /\ lastOp'.op = "loadSettle" /\ lastOp'.inst = n
                        /\ lastOp'.ret = "resolved"
                        /\ sess[n].pms[lastOp'.k].load = "pending"
                        /\ sess'[n].pms[lastOp'.k].load = "ok"
                        /\ sess'[n].state = "ready"
                        /\ Len(sess[n].pms) = 1
                             => /\ sess'[n].playerManager = 1
                                /\ BoundPM(sess'[n]).load = "ok" ]_vars

\* a session holds a unit, composed in the step its load resolved
C25_Witness ==
  \E n \in Sessions :
    /\ lastOp.op = "loadSettle" /\ lastOp.inst = n
    /\ sess[n].composed = 1
    /\ sess[n].units # {}
    /\ sess[n].state = "ready"
    /\ BoundPM(sess[n]).load = "ok"

\* the function each unit subscribes to PLAY, for the units that do
PlayHandler == [data |-> "dataPlay", gemius |-> "gemiusPlay",
                ads |-> "adsPlay", endscreen |-> "endscreenPlay",
                recommendations |-> "recommendationsPlay"]

\* C26: every manager constructor and the autoplay request find the state
\* ready; and when autoplay asks the delegate to play, every unit the
\* configuration enables is already held and, if it listens to PLAY,
\* already subscribed, and nothing is constructed after the request.
C26_ReadyBeforeComposition ==
  \A n \in Sessions :
    LET seen == sess[n].seen
    IN \A i \in 1..Len(seen) :
         /\ seen[i].state = "ready"
         /\ seen[i].what = "autoplay"
              => /\ i = Len(seen)
                 /\ seen[i].units = Enabled(sess[n])
                 /\ \A u \in seen[i].units \cap DOMAIN PlayHandler :
                      PlayHandler[u] \in seen[i].plays
                 /\ sess[n].dcalls[Len(sess[n].dcalls)] = <<"play", 0>>

\* a session with every capability and autoplay has composed its eight
\* units and then asked the delegate to play
C26_Witness ==
  \E n \in Sessions :
    /\ Len(sess[n].seen) = 9
    /\ sess[n].seen[9].what = "autoplay"
    /\ Cardinality(sess[n].seen[9].units) = 8
    /\ Len(sess[n].plays) = 1

\* the STATE_CHANGED events of a log, in the order they were published
StateEvents(log) == SelectSeq(log, LAMBDA e : e[1] = "STATE_CHANGED")

\* C27: in every step, the STATE_CHANGED events a session publishes are the
\* changes of its state: each carries a state different from the one held
\* just before it, the last one carries the state held after the step, and
\* a step that publishes none leaves the state as it was.
C27_StateChangedIffChanged ==
  [][ \A n \in Insts :
        sess'[n] # NoSession
          => LET before == IF sess[n] = NoSession THEN "idle"
                           ELSE sess[n].state
                 L == StateEvents(sess'[n].log)
             IN /\ \A i \in 1..Len(L) :
                     L[i][2] # (IF i = 1 THEN before ELSE L[i - 1][2])
                /\ sess'[n].state = IF L = <<>> THEN before
                                    ELSE L[Len(L)][2] ]_vars

\* pause() on a playing session has published the one change to paused
C27_Witness ==
  \E n \in Sessions :
    /\ lastOp.op = "pause" /\ lastOp.inst = n
    /\ sess[n].state = "paused"
    /\ StateEvents(sess[n].log) = << <<"STATE_CHANGED", "paused">> >>

\* C28: pause() on a playing session makes the state paused, publishes
\* STATE_CHANGED{paused} and asks the delegate to pause, all in the call;
\* the delegate's pause signal arriving while the state is paused leaves it
\* paused and publishes PAUSE only.
C28_PauseIsImmediate ==
  [][ \A n \in Sessions :
        /\ (/\ lastOp'.op = "pause" /\ lastOp'.inst = n
            /\ sess[n].state = "playing")
             => /\ sess'[n].state = "paused"
                /\ sess'[n].log = << <<"STATE_CHANGED", "paused">> >>
                /\ sess'[n].dcalls = << <<"pause", 0>> >>
        /\ (/\ lastOp'.op = "signal" /\ lastOp'.inst = n
            /\ lastOp'.sig = "pause"
            /\ sess[n].state = "paused")
             => /\ sess'[n].state = "paused"
                /\ sess'[n].log = << <<"PAUSE", "none">> >> ]_vars

\* the delegate confirmed a pause the session had already applied
C28_Witness ==
  \E n \in Sessions :
    /\ BoundSignal(n, "pause") /\ lastOp.prev = "paused"
    /\ sess[n].state = "paused"
    /\ sess[n].log = << <<"PAUSE", "none">> >>
    /\ BoundPM(sess[n]).paused

\* C29: when dispose() of a session returns or throws, the session has no
\* player manager, no unit and no subscriber, and its state is idle.
C29_DisposeAlwaysCompletes ==
  \A n \in Sessions :
    (lastOp.op = "dispose" /\ lastOp.inst = n)
      => /\ sess[n].playerManager = 0
         /\ sess[n].units = {}
         /\ sess[n].handlers = <<>>
         /\ sess[n].state = "idle"

\* C30: when the dispose() of a unit returns, none of the functions the unit
\* subscribed on the session is still registered.
C30_UnitDisposeUnsubscribes ==
  \A n \in Sessions :
    \A i \in 1..Len(sess[n].torn) : sess[n].torn[i].left = {}


C32_DisposedTimerHasNoEffect ==
  [][ \A n \in Sessions :
        (/\ lastOp'.op = "endScreenTimer" /\ lastOp'.inst = n
         /\ sess[n].disposed)
          => ~sess'[n].endScreenShown ]_vars

\* C33: the end screen is not shown while the session is playing (a PLAY
\* has followed the last ENDED).
C33_HiddenWhilePlaying ==
  \A n \in Sessions : sess[n].state = "playing" => ~sess[n].endScreenShown

\* C34: the ended signal of the bound delegate, reaching a session that
\* holds the recommendations unit with the recommendations hidden, leaves
\* them shown and publishes RECOMMENDATIONS_SHOWN once.
C34_EndedShowsRecommendations ==
  [][ \A n \in Sessions :
        (/\ lastOp'.op = "signal" /\ lastOp'.inst = n
         /\ lastOp'.sig = "ended"
         /\ lastOp'.k = sess[n].playerManager
         /\ "recommendations" \in sess[n].units
         /\ ~sess[n].recommendationsShown)
          => /\ sess'[n].recommendationsShown
             /\ Published(sess'[n].log, "RECOMMENDATIONS_SHOWN") = 1 ]_vars

\* the timeupdate forwards the analytics unit made in the step
Forwards(S) ==
  Cardinality({i \in 1..Len(S.sends) : S.sends[i] = "timeupdate"})

\* C35: a TIME_UPDATE that reaches the analytics unit is forwarded at most
\* once; it is forwarded when none was forwarded before, and when it is
\* forwarded after another the clock has advanced by ThrottleInterval (5 s)
\* or more since that one.
C35_TimeUpdateThrottled ==
  [][ \A n \in Sessions :
        (/\ lastOp'.op = "signal" /\ lastOp'.inst = n
         /\ lastOp'.sig = "timeupdate"
         /\ "data" \in sess[n].units)
          => /\ Forwards(sess'[n]) <= 1
             /\ sess[n].sentAt = -1 => Forwards(sess'[n]) = 1
             /\ (Forwards(sess'[n]) = 1 /\ sess[n].sentAt # -1)
                  => sess[n].now - sess[n].sentAt >= ThrottleInterval ]_vars

\* a TIME_UPDATE has been forwarded ThrottleInterval or more after the
\* previous forward, which was not made at the start of the clock
C35_Witness ==
  \E n \in Sessions :
    /\ BoundSignal(n, "timeupdate")
    /\ sess[n].sends = <<"timeupdate">>
    /\ sess[n].sentAt = sess[n].now
    /\ sess[n].now > ClockStart + ThrottleInterval

\* C36: the active session is null or a session in the registry's map.
C36_ActiveIsRegistered ==
  activeItem = NoItem \/ \E id \in Ids : items[id] = activeItem

\* C37: every session in the registry's map has its createVideoItem call in
\* flight or resolved (announced with VIDEO_ITEM_CREATED); a call that was
\* rejected has left no entry.
C37_NoEntryOfRejectedCreate ==
  \A id \in Ids :
    items[id] # NoItem => creates[items[id]] \in {"awaiting", "resolved"}

\* C38: once the initial settings were applied to the bound delegate, the
\* configuration's muted flag is the mute value the delegate was last given.
C38_ConfigMutedIsApplied ==
  \A n \in Sessions :
    (/\ sess[n].playerManager # 0
     /\ BoundPM(sess[n]).adapter
     /\ BoundPM(sess[n]).load = "ok")
      => sess[n].config.muted = BoundPM(sess[n]).muted

\* C39: a signal of a delegate (playing, pause, ended, waiting or canplay)
\* that finds the session in error leaves it in error.
C39_ErrorIsAbsorbing ==
  [][ \A n \in Sessions :
        (/\ lastOp'.op = "signal" /\ lastOp'.inst = n
         /\ lastOp'.sig \in {"playing", "pause", "ended", "waiting", "canplay"}
         /\ sess[n].state = "error")
          => sess'[n].state = "error" ]_vars

\* C40: the registry's bus holds as many VOLUME_CHANGED handlers, and as
\* many MUTE_CHANGED handlers, as there are sessions in the map.
C40_BridgeHandlersMatchMap ==
  \A ev \in {"VOLUME_CHANGED", "MUTE_CHANGED"} :
    Cardinality({k \in 1..Len(engineHandlers) : engineHandlers[k].ev = ev})
      = Cardinality({id \in Ids : items[id] # NoItem})
=============================================================================
